---- MODULE Spec2Model ----
(***************************************************************************)
(* The e-mail automation loop of SuperTickets.AI                           *)
(* (mcp_service/services/email_automation_service.py) as a state machine.  *)
(*                                                                         *)
(* Scheduling.  The service runs on one asyncio event loop.  Every         *)
(* collaborator call of a polling cycle is an `await` of a coroutine whose *)
(* body is a blocking call (boto3 invoke_model, googleapiclient            *)
(* .execute(), supabase .execute()), so none of them hands control back to *)
(* the event loop: the only suspension point of a loop task is             *)
(* asyncio.sleep(check_interval).  The variable cur names the task that    *)
(* holds the event loop (0: the event loop is free); the steps of a cycle  *)
(* are separate actions so that intermediate states are visible, but other *)
(* coroutines (start, stop, a second loop) run only while cur = 0.  The    *)
(* inbox and the arrival of requests are outside the process and change at *)
(* any time.                                                               *)
(***************************************************************************)
EXTENDS Integers, Sequences, FiniteSets, Bags, TLC

\* ------------------------------------------------------------------ bounds
MaxTasks == 2
NumMsgs == 2
MaxCount == 2

\* -------------------------------------------------------- program constants
DefaultCheckInterval == 30
MaxResults == 10

Tasks == 1..MaxTasks
Ids == 1..NumMsgs
NoTask == 0
NoEmail == 0
NoTicket == 0
NoResponse == <<>>
NoReply == <<>>
NoReturn == <<>>
NoArgs == <<>>

CyclePcs == {"loop", "fetch", "next", "analyze", "search", "ticket",
             "generate", "send", "log", "add", "mark"}
PipelinePcs == {"analyze", "search", "ticket", "generate", "send", "log"}
InFlightPcs == PipelinePcs \cup {"add", "mark"}

VARIABLES
    pc,               \* position of each call of start_monitoring
    cur,              \* the task holding the event loop, or NoTask
    is_running,       \* self.is_running
    processed_emails, \* self.processed_emails
    check_interval,   \* self.check_interval; the service itself never
                      \* assigns it after construction
    gmail_client,     \* self.gmail_client: the task whose initialize()
                      \* built the object, or NoTask for None
    supabase,         \* self.supabase, likewise
    ai_processor,     \* the classifier variant installed in self.ai_processor
    unread,           \* inbox: ids matching "is:unread newer_than:1h"
    arrived,          \* ids that have been delivered to the inbox
    emails,           \* per task: the rest of the fetched batch
    email,            \* per task: the message of the running pipeline
    analysis,         \* per task: the Analysis of that message
    kb_results,       \* per task: knowledge search returned candidates
    ticket_id,        \* per task: ticket_id of _process_single_email
    response,         \* per task: the reply text composed for the message
    send_result,      \* per task: how gmail_client.send_email ended
    tickets,          \* rows of support_tickets
    sent,             \* bag of the replies handed to the outbox
    interaction_log,  \* bag of the email_processed rows of
                      \* support_interactions
    stop_requested,   \* a stop() request waits for the event loop
    stopped,          \* history: stop() ran and start() was not called since
    raised,           \* history: ids whose last pipeline run raised
    manual_response,  \* what the last call of process_email_manually
                      \* answered, or NoResponse
    variant,          \* the classifier class a call of analyze_email is on
    full_text,        \* analyze_email of the rule variant: the keywords
                      \* and review words occurring in full_text
    fault,            \* a statement inside the try block of the rule
                      \* variant's analyze_email raises
    ai_response,      \* analyze_email of the inference variant: how the
                      \* call of the inference service ends
    returned,         \* how the call of analyze_email, generate_response
                      \* or search ended, or NoReturn
    compose_args,     \* generate_response: the analysis and kb_results
                      \* arguments of the call, or NoArgs
    search_args,      \* EmbeddingSearch.search: the category_filter
                      \* argument and the answer of the knowledge store,
                      \* or NoArgs
    email_data,       \* _send_automated_response: the ticket_id argument
                      \* and the body handed to send_email, or NoArgs
    cycle             \* one call of _process_new_emails on a large inbox:
                      \* what the inbox holds and how far the call got,
                      \* or NoArgs

vars == <<pc, cur, is_running, processed_emails, check_interval, gmail_client,
          supabase, ai_processor, unread, arrived, emails, email, analysis,
          kb_results, ticket_id, response, send_result, tickets, sent,
          interaction_log, stop_requested, stopped, raised, manual_response,
          variant, full_text, fault, ai_response, returned, compose_args,
          search_args, email_data, cycle>>

service == <<is_running, processed_emails, check_interval, gmail_client,
             supabase, ai_processor>>
stores == <<tickets, sent, interaction_log>>
frame == <<emails, email, analysis, kb_results, ticket_id, response,
          send_result>>
inbox == <<unread, arrived>>
hist == <<stopped, raised>>
\* what the polling loop never reads or writes
classifier == <<variant, full_text, fault, ai_response, returned>>
aux == <<manual_response, classifier, compose_args, search_args, email_data,
         cycle>>

\* ----------------------------------------------------------------- helpers
NoAnalysis == [ticket_needed |-> FALSE, requires_human |-> FALSE]

\* BedrockAIProcessor._fallback_analysis
FallbackAnalysis == [ticket_needed |-> TRUE, requires_human |-> TRUE]

Analyses == [ticket_needed : BOOLEAN, requires_human : BOOLEAN]

\* the ids of S, the most recently delivered (the largest) first
NewestFirst(S) ==
    IF S = {} THEN <<>>
    ELSE [i \in 1..Cardinality(S) |->
             CHOOSE x \in S : Cardinality({y \in S : y > x}) = i - 1]

\* a list call that follows nextPageToken to the last page
AllPages(all) == all

\* messages().list(..., maxResults=10): the first page of the matches; the
\* nextPageToken of the answer is never read
FirstPage(all) ==
    IF Len(all) <= MaxResults THEN all ELSE SubSeq(all, 1, MaxResults)

\* messages().list(q="is:unread newer_than:1h", maxResults=10) followed by
\* the get and parse of each listed message
Batch == FirstPage(NewestFirst(unread))

RECURSIVE SumOver(_, _)
SumOver(b, S) ==
    IF S = {} THEN 0
    ELSE LET x == CHOOSE y \in S : TRUE IN b[x] + SumOver(b, S \ {x})

\* the email_processed rows of support_interactions for message id
ProcessedRecords(id) ==
    {r \in BagToSet(interaction_log) :
        r.interaction_type = "email_processed" /\ r.email_id = id}

CountLog(id) == SumOver(interaction_log, ProcessedRecords(id))

CountSent(id) == SumOver(sent, {r \in BagToSet(sent) : r.email_id = id})

CountTickets(id) == Cardinality({t \in tickets : t.email_id = id})

\* str(uuid.uuid4()): an id no other ticket has
NewTicketId(id) == CountTickets(id) * NumMsgs + id

\* ids the loop has marked read: only the loop removes the UNREAD label
marked_read == arrived \ unread

\* clears the locals of _process_single_email of task t
ClearFrame(t) ==
    /\ email' = [email EXCEPT ![t] = NoEmail]
    /\ analysis' = [analysis EXCEPT ![t] = NoAnalysis]
    /\ kb_results' = [kb_results EXCEPT ![t] = FALSE]
    /\ ticket_id' = [ticket_id EXCEPT ![t] = NoTicket]
    /\ response' = [response EXCEPT ![t] = "none"]
    /\ send_result' = [send_result EXCEPT ![t] = "none"]

\* -------------------------------------------------------------------- Init
\* the service object after construction; no route has been called
ServiceInit ==
    /\ pc = [t \in Tasks |-> "idle"]
    /\ cur = NoTask
    /\ is_running = FALSE
    /\ processed_emails = {}
    /\ check_interval = DefaultCheckInterval
    /\ gmail_client = NoTask
    /\ supabase = NoTask
    /\ ai_processor = "bedrock"
    /\ unread = {}
    /\ arrived = {}
    /\ emails = [t \in Tasks |-> <<>>]
    /\ email = [t \in Tasks |-> NoEmail]
    /\ analysis = [t \in Tasks |-> NoAnalysis]
    /\ kb_results = [t \in Tasks |-> FALSE]
    /\ ticket_id = [t \in Tasks |-> NoTicket]
    /\ response = [t \in Tasks |-> "none"]
    /\ send_result = [t \in Tasks |-> "none"]
    /\ tickets = {}
    /\ sent = EmptyBag
    /\ interaction_log = EmptyBag
    /\ stop_requested = FALSE
    /\ stopped = FALSE
    /\ raised = {}
    /\ manual_response = NoResponse

\* no call of analyze_email outside the loop
ClassifierIdle ==
    /\ variant = "bedrock"
    /\ full_text = {}
    /\ fault = FALSE
    /\ ai_response = NoReply
    /\ returned = NoReturn

\* no call of generate_response outside the loop
ComposerIdle == compose_args = NoArgs /\ email_data = NoArgs

\* no call of EmbeddingSearch.search
MatcherIdle == search_args = NoArgs

\* no cycle on a large inbox
FetchIdle == cycle = NoArgs

Init ==
    /\ ServiceInit
    /\ ClassifierIdle
    /\ ComposerIdle
    /\ MatcherIdle
    /\ FetchIdle

\* ------------------------------------------------------------- environment
\* a message is delivered to the inbox (ids are delivered in order).  Only
\* the list call of _fetch_emails reads the inbox, so a delivery during a
\* cycle is taken at the next state in which no cycle is past its fetch
Arrive(m) ==
    /\ IF cur = NoTask THEN TRUE ELSE pc[cur] \in {"loop", "fetch"}
    /\ m \notin arrived
    /\ \A k \in Ids : k < m => k \in arrived
    /\ unread' = unread \cup {m}
    /\ arrived' = arrived \cup {m}
    /\ UNCHANGED <<pc, cur, service, frame, stores, stop_requested, hist>>
    /\ UNCHANGED aux

\* the keyword-rule classifier is installed in place of the inference one,
\* before the service is first started
InstallRuleVariant ==
    /\ \A t \in Tasks : pc[t] = "idle"
    /\ ai_processor = "bedrock"
    /\ ai_processor' = "rule"
    /\ UNCHANGED <<pc, cur, is_running, processed_emails, check_interval,
                   gmail_client, supabase, inbox, frame, stores,
                   stop_requested, hist>>
    /\ UNCHANGED aux

\* ------------------------------------------------------------ start / stop
\* start_monitoring without the `if self.is_running: return` guard
StartMonitoringNoGuard(t) ==
    /\ cur = NoTask
    /\ pc[t] = "idle"
    /\ \A u \in Tasks : u < t => pc[u] # "idle"
    /\ stopped' = FALSE
    /\ \E okGmail, okSupabase \in BOOLEAN :
            /\ gmail_client' = IF okGmail THEN t ELSE gmail_client
            /\ supabase' = IF okGmail /\ okSupabase THEN t ELSE supabase
            /\ IF okGmail /\ okSupabase
               THEN /\ is_running' = TRUE
                    /\ pc' = [pc EXCEPT ![t] = "loop"]
                    /\ cur' = t
               ELSE /\ pc' = [pc EXCEPT ![t] = "raised"]
                    /\ UNCHANGED <<is_running, cur>>
            /\ UNCHANGED <<processed_emails, check_interval, ai_processor>>
    /\ UNCHANGED <<inbox, frame, stores, stop_requested, raised>>
    /\ UNCHANGED aux

\* start_monitoring setting is_running before it awaits initialize()
StartMonitoringFlagFirst(t) ==
    /\ cur = NoTask
    /\ pc[t] = "idle"
    /\ \A u \in Tasks : u < t => pc[u] # "idle"
    /\ stopped' = FALSE
    /\ IF is_running
       THEN /\ pc' = [pc EXCEPT ![t] = "returned"]
            /\ UNCHANGED <<cur, service>>
       ELSE \E okGmail, okSupabase \in BOOLEAN :
            /\ gmail_client' = IF okGmail THEN t ELSE gmail_client
            /\ supabase' = IF okGmail /\ okSupabase THEN t ELSE supabase
            /\ is_running' = TRUE
            /\ IF okGmail /\ okSupabase
               THEN /\ pc' = [pc EXCEPT ![t] = "loop"]
                    /\ cur' = t
               ELSE /\ pc' = [pc EXCEPT ![t] = "raised"]
                    /\ UNCHANGED cur
            /\ UNCHANGED <<processed_emails, check_interval, ai_processor>>
    /\ UNCHANGED <<inbox, frame, stores, stop_requested, raised>>
    /\ UNCHANGED aux

\* a start that begins with an empty processed_emails
StartMonitoringForgets(t) ==
    /\ cur = NoTask
    /\ pc[t] = "idle"
    /\ \A u \in Tasks : u < t => pc[u] # "idle"
    /\ stopped' = FALSE
    /\ IF is_running
       THEN /\ pc' = [pc EXCEPT ![t] = "returned"]
            /\ UNCHANGED <<cur, service>>
       ELSE \E okGmail, okSupabase \in BOOLEAN :
            /\ gmail_client' = IF okGmail THEN t ELSE gmail_client
            /\ supabase' = IF okGmail /\ okSupabase THEN t ELSE supabase
            /\ IF okGmail /\ okSupabase
               THEN /\ is_running' = TRUE
                    /\ pc' = [pc EXCEPT ![t] = "loop"]
                    /\ cur' = t
               ELSE /\ pc' = [pc EXCEPT ![t] = "raised"]
                    /\ UNCHANGED <<is_running, cur>>
            /\ processed_emails' = IF okGmail /\ okSupabase THEN {}
                                   ELSE processed_emails
            /\ UNCHANGED <<check_interval, ai_processor>>
    /\ UNCHANGED <<inbox, frame, stores, stop_requested, raised>>
    /\ UNCHANGED aux

\* start_monitoring up to the first evaluation of the while condition;
\* initialize() is inlined: okGmail and okSupabase say whether GmailClient()
\* and get_supabase_client() return or raise
StartMonitoring(t) ==
    /\ cur = NoTask
    /\ pc[t] = "idle"
    /\ \A u \in Tasks : u < t => pc[u] # "idle"
    /\ stopped' = FALSE
    /\ IF is_running
       THEN /\ pc' = [pc EXCEPT ![t] = "returned"]
            /\ UNCHANGED <<cur, service>>
       ELSE \E okGmail, okSupabase \in BOOLEAN :
            /\ gmail_client' = IF okGmail THEN t ELSE gmail_client
            /\ supabase' = IF okGmail /\ okSupabase THEN t ELSE supabase
            /\ IF okGmail /\ okSupabase
               THEN /\ is_running' = TRUE
                    /\ pc' = [pc EXCEPT ![t] = "loop"]
                    /\ cur' = t
               ELSE /\ pc' = [pc EXCEPT ![t] = "raised"]
                    /\ UNCHANGED <<is_running, cur>>
            /\ UNCHANGED <<processed_emails, check_interval, ai_processor>>
    /\ UNCHANGED <<inbox, frame, stores, stop_requested, raised>>
    /\ UNCHANGED aux

\* a caller asks for stop() of a running service; the coroutine runs when
\* the event loop is free
StopRequest ==
    /\ is_running
    /\ ~stop_requested
    /\ stop_requested' = TRUE
    /\ UNCHANGED <<pc, cur, service, inbox, frame, stores, hist>>
    /\ UNCHANGED aux

\* stop_monitoring running while a loop task is inside a cycle
StopMonitoringPreemptive ==
    /\ stop_requested
    /\ is_running' = FALSE
    /\ stop_requested' = FALSE
    /\ stopped' = TRUE
    /\ UNCHANGED <<pc, cur, processed_emails, check_interval, gmail_client,
                   supabase, ai_processor, inbox, frame, stores, raised>>
    /\ UNCHANGED aux
StopMonitoring ==
    /\ cur = NoTask
    /\ stop_requested
    /\ is_running' = FALSE
    /\ stop_requested' = FALSE
    /\ stopped' = TRUE
    /\ UNCHANGED <<pc, cur, processed_emails, check_interval, gmail_client,
                   supabase, ai_processor, inbox, frame, stores, raised>>
    /\ UNCHANGED aux

\* `while True:` in place of `while self.is_running:`
LoopCheckIgnoresFlag(t) ==
    /\ cur = t
    /\ pc[t] = "loop"
    /\ pc' = [pc EXCEPT ![t] = "fetch"]
    /\ UNCHANGED <<cur, service, inbox, frame, stores, stop_requested, hist>>
    /\ UNCHANGED aux

\* `while self.is_running:` of start_monitoring
LoopCheck(t) ==
    /\ cur = t
    /\ pc[t] = "loop"
    /\ IF is_running
       THEN /\ pc' = [pc EXCEPT ![t] = "fetch"]
            /\ UNCHANGED cur
       ELSE /\ pc' = [pc EXCEPT ![t] = "done"]
            /\ cur' = NoTask
    /\ UNCHANGED <<service, inbox, frame, stores, stop_requested, hist>>
    /\ UNCHANGED aux

\* asyncio.sleep(check_interval) returns
Wake(t) ==
    /\ cur = NoTask
    /\ pc[t] = "sleep"
    /\ pc' = [pc EXCEPT ![t] = "loop"]
    /\ cur' = t
    /\ UNCHANGED <<service, inbox, frame, stores, stop_requested, hist>>
    /\ UNCHANGED aux

\* ------------------------------------------------------------- the cycle
\* _fetch_emails and _process_new_emails without their except clauses: the
\* exception of the inbox reaches the handler of start_monitoring
FetchEmailsPropagates(t) ==
    /\ cur = t
    /\ pc[t] = "fetch"
    /\ \/ /\ emails' = [emails EXCEPT ![t] = Batch]
          /\ pc' = [pc EXCEPT ![t] = "next"]
          /\ UNCHANGED <<cur, is_running>>
       \/ /\ is_running' = FALSE
          /\ pc' = [pc EXCEPT ![t] = "done"]
          /\ cur' = NoTask
          /\ UNCHANGED emails
    /\ UNCHANGED <<processed_emails, check_interval, gmail_client, supabase,
                   ai_processor, inbox, email, analysis, kb_results,
                   ticket_id, response, send_result, stores, stop_requested,
                   hist>>
    /\ UNCHANGED aux

\* _fetch_emails: the batch, or [] when the inbox raises
FetchEmails(t) ==
    /\ cur = t
    /\ pc[t] = "fetch"
    /\ \/ emails' = [emails EXCEPT ![t] = Batch]
       \/ emails' = [emails EXCEPT ![t] = <<>>]
    /\ pc' = [pc EXCEPT ![t] = "next"]
    /\ UNCHANGED <<cur, service, inbox, email, analysis, kb_results,
                   ticket_id, response, send_result, stores, stop_requested,
                   hist>>
    /\ UNCHANGED aux

\* the for loop without `if email_id in self.processed_emails: continue`
NextEmailNoSkip(t) ==
    /\ cur = t
    /\ pc[t] = "next"
    /\ IF emails[t] = <<>>
       THEN /\ pc' = [pc EXCEPT ![t] = "sleep"]
            /\ cur' = NoTask
            /\ UNCHANGED <<emails, email>>
       ELSE /\ emails' = [emails EXCEPT ![t] = Tail(emails[t])]
            /\ UNCHANGED cur
            /\ email' = [email EXCEPT ![t] = Head(emails[t])]
            /\ pc' = [pc EXCEPT ![t] = "analyze"]
    /\ UNCHANGED <<service, inbox, analysis, kb_results, ticket_id, response,
                   send_result, stores, stop_requested, hist>>
    /\ UNCHANGED aux

\* `for email in emails:` with the skip of processed ids; when the batch is
\* exhausted the task sleeps and frees the event loop
NextEmail(t) ==
    /\ cur = t
    /\ pc[t] = "next"
    /\ IF emails[t] = <<>>
       THEN /\ pc' = [pc EXCEPT ![t] = "sleep"]
            /\ cur' = NoTask
            /\ UNCHANGED <<emails, email>>
       ELSE /\ emails' = [emails EXCEPT ![t] = Tail(emails[t])]
            /\ UNCHANGED cur
            /\ IF Head(emails[t]) \in processed_emails
               THEN UNCHANGED <<pc, email>>
               ELSE /\ email' = [email EXCEPT ![t] = Head(emails[t])]
                    /\ pc' = [pc EXCEPT ![t] = "analyze"]
    /\ UNCHANGED <<service, inbox, analysis, kb_results, ticket_id, response,
                   send_result, stores, stop_requested, hist>>
    /\ UNCHANGED aux

\* step 1: ai_processor.analyze_email; what the inference service answers
\* decides the Analysis, and an internal failure gives the fail-safe one
AnalyzeEmail(t) ==
    /\ cur = t
    /\ pc[t] = "analyze"
    /\ \E a \in Analyses \cup {FallbackAnalysis} :
          analysis' = [analysis EXCEPT ![t] = a]
    /\ pc' = [pc EXCEPT ![t] = "search"]
    /\ UNCHANGED <<cur, service, inbox, emails, email, kb_results, ticket_id,
                   response, send_result, stores, stop_requested, hist>>
    /\ UNCHANGED aux

\* the handler of _process_new_emails also recording the id as processed
PipelineRaisedMarksProcessed(t) ==
    /\ raised' = raised \cup {email[t]}
    /\ processed_emails' = processed_emails \cup {email[t]}
    /\ ClearFrame(t)
    /\ pc' = [pc EXCEPT ![t] = "next"]
    /\ UNCHANGED <<cur, is_running, check_interval, gmail_client, supabase,
                   ai_processor, inbox, emails, stores, stop_requested, stopped>>
    /\ UNCHANGED aux

\* the exception of one message caught by the handler around the whole
\* batch (line 92) in place of the one inside the for loop
PipelineRaisedAbortsBatch(t) ==
    /\ raised' = raised \cup {email[t]}
    /\ ClearFrame(t)
    /\ emails' = [emails EXCEPT ![t] = <<>>]
    /\ pc' = [pc EXCEPT ![t] = "next"]
    /\ UNCHANGED <<cur, service, inbox, stores, stop_requested, stopped>>
    /\ UNCHANGED aux

\* the handlers of an exception that leaves _process_single_email: it is
\* re-raised, _process_new_emails logs it and goes on with the next message
PipelineRaised(t) ==
    /\ raised' = raised \cup {email[t]}
    /\ ClearFrame(t)
    /\ pc' = [pc EXCEPT ![t] = "next"]
    /\ UNCHANGED <<cur, service, inbox, emails, stores, stop_requested, stopped>>
    /\ UNCHANGED aux

\* step 2: ai_processor.search_knowledge_base_ai: candidates, or [] when
\* the inference service raises; the rule variant has no such method, so
\* the attribute lookup raises
SearchKnowledgeBase(t) ==
    /\ cur = t
    /\ pc[t] = "search"
    /\ IF ai_processor = "rule"
       THEN PipelineRaised(t)
       ELSE /\ \E found \in BOOLEAN :
                  kb_results' = [kb_results EXCEPT ![t] = found]
            /\ pc' = [pc EXCEPT ![t] = "ticket"]
            /\ UNCHANGED <<cur, service, inbox, emails, email, analysis,
                           ticket_id, response, send_result, stores,
                           stop_requested, hist>>
    /\ UNCHANGED aux

\* _create_support_ticket without its except clause: the exception of the
\* insert leaves _process_single_email
CreateTicketPropagates(t) ==
    /\ cur = t
    /\ pc[t] = "ticket"
    /\ IF analysis[t].ticket_needed
       THEN \/ /\ CountTickets(email[t]) < MaxCount
               /\ tickets' = tickets \cup
                     {[ticket_id |-> NewTicketId(email[t]),
                       email_id |-> email[t]]}
               /\ ticket_id' = [ticket_id EXCEPT ![t] = NewTicketId(email[t])]
               /\ pc' = [pc EXCEPT ![t] =
                           IF ~analysis[t].requires_human \/ kb_results[t]
                           THEN "generate" ELSE "log"]
               /\ UNCHANGED <<cur, service, inbox, emails, email, analysis,
                              kb_results, response, send_result, sent,
                              interaction_log, stop_requested, hist>>
            \/ PipelineRaised(t)
       ELSE /\ pc' = [pc EXCEPT ![t] =
                        IF ~analysis[t].requires_human \/ kb_results[t]
                        THEN "generate" ELSE "log"]
            /\ UNCHANGED <<cur, service, inbox, frame, stores,
                           stop_requested, hist>>
    /\ UNCHANGED aux

\* step 3 followed by the test `not analysis.requires_human` alone
CreateTicketIgnoresCandidates(t) ==
    /\ cur = t
    /\ pc[t] = "ticket"
    /\ IF analysis[t].ticket_needed
       THEN \/ /\ CountTickets(email[t]) < MaxCount
               /\ tickets' = tickets \cup
                     {[ticket_id |-> NewTicketId(email[t]),
                       email_id |-> email[t]]}
               /\ ticket_id' = [ticket_id EXCEPT ![t] = NewTicketId(email[t])]
            \/ UNCHANGED <<tickets, ticket_id>>
       ELSE UNCHANGED <<tickets, ticket_id>>
    /\ pc' = [pc EXCEPT ![t] =
                IF ~analysis[t].requires_human THEN "generate" ELSE "log"]
    /\ UNCHANGED <<cur, service, inbox, emails, email, analysis, kb_results,
                   response, send_result, sent, interaction_log,
                   stop_requested, hist>>
    /\ UNCHANGED aux

\* step 3: _create_support_ticket when analysis.ticket_needed (the id, or
\* None when the insert raises), then the test
\* `not analysis.requires_human or kb_results`
CreateTicket(t) ==
    /\ cur = t
    /\ pc[t] = "ticket"
    /\ IF analysis[t].ticket_needed
       THEN \/ /\ CountTickets(email[t]) < MaxCount
               /\ tickets' = tickets \cup
                     {[ticket_id |-> NewTicketId(email[t]),
                       email_id |-> email[t]]}
               /\ ticket_id' = [ticket_id EXCEPT ![t] = NewTicketId(email[t])]
            \/ UNCHANGED <<tickets, ticket_id>>
       ELSE UNCHANGED <<tickets, ticket_id>>
    /\ pc' = [pc EXCEPT ![t] =
                IF ~analysis[t].requires_human \/ kb_results[t]
                THEN "generate" ELSE "log"]
    /\ UNCHANGED <<cur, service, inbox, emails, email, analysis, kb_results,
                   response, send_result, sent, interaction_log,
                   stop_requested, hist>>
    /\ UNCHANGED aux

\* generate_response without its except clause: the exception of the
\* inference call leaves _process_single_email
GenerateResponsePropagates(t) ==
    /\ cur = t
    /\ pc[t] = "generate"
    /\ \/ /\ response' = [response EXCEPT ![t] = "ai"]
          /\ pc' = [pc EXCEPT ![t] = "send"]
          /\ UNCHANGED <<cur, service, inbox, emails, email, analysis,
                         kb_results, ticket_id, send_result, stores,
                         stop_requested, hist>>
       \/ PipelineRaised(t)
    /\ UNCHANGED aux

\* step 4: ai_processor.generate_response; an internal failure gives the
\* fallback text
GenerateResponse(t) ==
    /\ cur = t
    /\ pc[t] = "generate"
    /\ \E text \in {"ai", "fallback"} :
          response' = [response EXCEPT ![t] = text]
    /\ pc' = [pc EXCEPT ![t] = "send"]
    /\ UNCHANGED <<cur, service, inbox, emails, email, analysis, kb_results,
                   ticket_id, send_result, stores, stop_requested, hist>>
    /\ UNCHANGED aux

\* _send_automated_response without its except clause: the exception of
\* send_email leaves _process_single_email before the log step
SendResponsePropagates(t) ==
    /\ cur = t
    /\ pc[t] = "send"
    /\ \/ /\ CountSent(email[t]) < MaxCount
          /\ sent' = sent (+) SetToBag({[email_id |-> email[t],
                                 ticket_ref |-> ticket_id[t] # NoTicket]})
          /\ send_result' = [send_result EXCEPT ![t] = "sent"]
          /\ pc' = [pc EXCEPT ![t] = "log"]
          /\ UNCHANGED <<cur, service, inbox, emails, email, analysis,
                         kb_results, ticket_id, response, tickets,
                         interaction_log, stop_requested, hist>>
       \/ PipelineRaised(t)
    /\ UNCHANGED aux

\* step 5: _send_automated_response, which catches every exception; the
\* email_sent row that _log_email_sent inserts after a send is of another
\* interaction_type than the rows interaction_log holds, and a failure to
\* insert it is caught too
SendResponse(t) ==
    /\ cur = t
    /\ pc[t] = "send"
    /\ \/ /\ CountSent(email[t]) < MaxCount
          /\ sent' = sent (+) SetToBag({[email_id |-> email[t],
                                 ticket_ref |-> ticket_id[t] # NoTicket]})
          /\ send_result' = [send_result EXCEPT ![t] = "sent"]
       \/ /\ send_result' = [send_result EXCEPT ![t] = "failed"]
          /\ UNCHANGED sent
    /\ pc' = [pc EXCEPT ![t] = "log"]
    /\ UNCHANGED <<cur, service, inbox, emails, email, analysis, kb_results,
                   ticket_id, response, tickets, interaction_log,
                   stop_requested, hist>>
    /\ UNCHANGED aux

\* a row whose ticket_created says that a ticket was asked for, whether or
\* not the insert of the ticket succeeded
ProcessedRecordAlwaysCreated(id, tid) ==
    [interaction_type |-> "email_processed", email_id |-> id,
     ticket_created |-> TRUE, ticket_id |-> tid]

\* the row _log_email_processing inserts
ProcessedRecord(id, tid) ==
    [interaction_type |-> "email_processed", email_id |-> id,
     ticket_created |-> (tid # NoTicket), ticket_id |-> tid]

\* _process_single_email going from the log step straight to the mark-read
\* call, before the id is added to processed_emails
LogProcessingThenMark(t) ==
    /\ cur = t
    /\ pc[t] = "log"
    /\ \/ /\ CountLog(email[t]) < MaxCount
          /\ interaction_log' = interaction_log (+)
                SetToBag({ProcessedRecord(email[t], ticket_id[t])})
       \/ UNCHANGED interaction_log
    /\ raised' = raised \ {email[t]}
    /\ analysis' = [analysis EXCEPT ![t] = NoAnalysis]
    /\ kb_results' = [kb_results EXCEPT ![t] = FALSE]
    /\ ticket_id' = [ticket_id EXCEPT ![t] = NoTicket]
    /\ response' = [response EXCEPT ![t] = "none"]
    /\ pc' = [pc EXCEPT ![t] = "mark"]
    /\ UNCHANGED <<cur, service, inbox, emails, email, send_result, tickets,
                   sent, stop_requested, stopped>>
    /\ UNCHANGED aux

\* step 6: _log_email_processing, which catches every exception; then
\* _process_single_email returns and its locals are gone
LogProcessing(t) ==
    /\ cur = t
    /\ pc[t] = "log"
    /\ \/ /\ CountLog(email[t]) < MaxCount
          /\ interaction_log' = interaction_log (+)
                SetToBag({ProcessedRecord(email[t], ticket_id[t])})
       \/ UNCHANGED interaction_log
    /\ raised' = raised \ {email[t]}
    /\ analysis' = [analysis EXCEPT ![t] = NoAnalysis]
    /\ kb_results' = [kb_results EXCEPT ![t] = FALSE]
    /\ ticket_id' = [ticket_id EXCEPT ![t] = NoTicket]
    /\ response' = [response EXCEPT ![t] = "none"]
    /\ pc' = [pc EXCEPT ![t] = "add"]
    /\ UNCHANGED <<cur, service, inbox, emails, email, send_result, tickets,
                   sent, stop_requested, stopped>>
    /\ UNCHANGED aux

\* self.processed_emails.add(email_id)
AddProcessed(t) ==
    /\ cur = t
    /\ pc[t] = "add"
    /\ processed_emails' = processed_emails \cup {email[t]}
    /\ pc' = [pc EXCEPT ![t] = "mark"]
    /\ UNCHANGED <<cur, is_running, check_interval, gmail_client, supabase,
                   ai_processor, inbox, frame, stores, stop_requested, hist>>
    /\ UNCHANGED aux

\* a failed mark-read taking the id out of processed_emails again, so that
\* the next cycle runs the message once more
MarkAsReadFailureRetries(t) ==
    /\ cur = t
    /\ pc[t] = "mark"
    /\ \/ /\ unread' = unread \ {email[t]}
          /\ UNCHANGED processed_emails
       \/ /\ processed_emails' = processed_emails \ {email[t]}
          /\ UNCHANGED unread
    /\ ClearFrame(t)
    /\ pc' = [pc EXCEPT ![t] = "next"]
    /\ UNCHANGED <<cur, is_running, check_interval, gmail_client, supabase,
                   ai_processor, arrived, emails, stores, stop_requested,
                   hist>>
    /\ UNCHANGED aux

\* _mark_email_as_read, which catches every exception
MarkAsRead(t) ==
    /\ cur = t
    /\ pc[t] = "mark"
    /\ \/ unread' = unread \ {email[t]}
       \/ UNCHANGED unread
    /\ ClearFrame(t)
    /\ pc' = [pc EXCEPT ![t] = "next"]
    /\ UNCHANGED <<cur, service, arrived, emails, stores, stop_requested,
                   hist>>
    /\ UNCHANGED aux

Next ==
    \/ \E m \in Ids : Arrive(m)
    \/ InstallRuleVariant
    \/ \E t \in Tasks : StartMonitoring(t)
    \/ StopRequest
    \/ StopMonitoring
    \/ \E t \in Tasks : LoopCheck(t)
    \/ \E t \in Tasks : Wake(t)
    \/ \E t \in Tasks : FetchEmails(t)
    \/ \E t \in Tasks : NextEmail(t)
    \/ \E t \in Tasks : AnalyzeEmail(t)
    \/ \E t \in Tasks : SearchKnowledgeBase(t)
    \/ \E t \in Tasks : CreateTicket(t)
    \/ \E t \in Tasks : GenerateResponse(t)
    \/ \E t \in Tasks : SendResponse(t)
    \/ \E t \in Tasks : LogProcessing(t)
    \/ \E t \in Tasks : AddProcessed(t)
    \/ \E t \in Tasks : MarkAsRead(t)

Spec == Init /\ [][Next]_vars

TypeOK ==
    /\ pc \in [Tasks -> CyclePcs \cup {"idle", "sleep", "done", "returned",
                                       "raised"}]
    /\ cur \in Tasks \cup {NoTask}
    /\ is_running \in BOOLEAN
    /\ processed_emails \subseteq Ids
    /\ check_interval = DefaultCheckInterval
    /\ unread \subseteq arrived
    /\ \A t \in Tasks : email[t] \in Ids \cup {NoEmail}
    /\ \A t \in Tasks : analysis[t] \in Analyses
    /\ raised \subseteq Ids
    /\ gmail_client \in Tasks \cup {NoTask}
    /\ supabase \in Tasks \cup {NoTask}

\* ------------------------------------------------------------- properties
\* the loop tasks that are inside a cycle or will start one when they wake
ActiveLoops ==
    {t \in Tasks : pc[t] \in CyclePcs \/ (pc[t] = "sleep" /\ is_running)}

\* C1: for every message id, however often the id is fetched, the loop
\* sends at most one reply, creates at most one ticket and appends at most
\* one email_processed record
C1_AtMostOnePerMessage ==
    \A id \in Ids :
        /\ CountSent(id) <= 1
        /\ CountTickets(id) <= 1
        /\ CountLog(id) <= 1

\* C1 witness: a message that has its reply, ticket and record is fetched
\* again (it is still unread) and is at the head of the batch
C1_Witness ==
    \E t \in Tasks :
        /\ pc[t] = "next"
        /\ emails[t] # <<>>
        /\ Head(emails[t]) \in processed_emails
        /\ CountSent(Head(emails[t])) = 1
        /\ CountTickets(Head(emails[t])) = 1
        /\ CountLog(Head(emails[t])) = 1

\* C2: at most one polling loop is active at any moment
C2_AtMostOneActiveLoop == Cardinality(ActiveLoops) <= 1

\* C3: a message whose reply send has failed is not added to ProcessedSet
\* by that pipeline run
C3_SendFailureNotProcessed ==
    \A t \in Tasks :
        send_result[t] = "failed" => email[t] \notin processed_emails

\* C4: every id in ProcessedSet has an email_processed record in the
\* Interaction Log
C4_ProcessedHasRecord ==
    \A id \in processed_emails : CountLog(id) >= 1

\* C5: an id whose last pipeline run raised is neither in ProcessedSet nor
\* marked read, and a cycle that takes it from the head of its batch runs
\* the pipeline for it
C5_RaisedIsRetried ==
    /\ [](\A id \in raised :
             id \notin processed_emails /\ id \notin marked_read)
    /\ [][\A t \in Tasks :
             (/\ pc[t] = "next"
              /\ emails[t] # <<>>
              /\ Head(emails[t]) \in raised
              /\ emails'[t] # emails[t])
             => (pc'[t] = "analyze" /\ email'[t] = Head(emails[t]))]_vars

\* C5 witness: the pipeline runs again for an id whose last run raised
C5_Witness ==
    \E t \in Tasks : pc[t] = "analyze" /\ email[t] \in raised

\* C6: while a message is in flight is_running is true, so the loop is not
\* observed as stopped before the pipeline of that message has completed
C6_InFlightImpliesRunning ==
    \A t \in Tasks : pc[t] \in InFlightPcs => is_running

\* C6 witness: stop() has been asked for while a message was in flight, and
\* the pipeline of that message has gone on to its last step
C6_Witness ==
    /\ stop_requested
    /\ \E t \in Tasks : pc[t] = "mark" /\ email[t] \in processed_emails

\* C7: once stop() has run and until start() is called again, no loop task
\* is inside a polling cycle: a task that wakes leaves at the while test
C7_NoCycleAfterStop ==
    stopped => \A t \in Tasks : pc[t] \notin (CyclePcs \ {"loop"})

\* C7 witness: a loop that was stopped while it slept has left the loop
C7_Witness ==
    /\ stopped
    /\ \E t \in Tasks : pc[t] = "done"

\* C8: a start() that runs while is_running is true changes nothing but its
\* own return: no initialize(), no new loop, the same is_running,
\* ProcessedSet, check_interval and collaborators
C8_StartWhileRunningIsNoOp ==
    [][\A t \in Tasks :
          (pc[t] = "idle" /\ pc'[t] # "idle" /\ is_running)
          => /\ pc'[t] = "returned"
             /\ ActiveLoops' = ActiveLoops
             /\ is_running' = is_running
             /\ processed_emails' = processed_emails
             /\ check_interval' = check_interval
             /\ gmail_client' = gmail_client
             /\ supabase' = supabase]_vars

\* C8 witness: a start() has returned at the guard while a loop was running
C8_Witness ==
    /\ is_running
    /\ \E t \in Tasks : pc[t] = "returned"
    /\ \E t \in Tasks : pc[t] \in CyclePcs \cup {"sleep"}

\* C9: a start() that calls initialize() and does not get both collaborator
\* objects raises, leaves is_running false and enters no polling cycle
C9_InitFailureLeavesStopped ==
    [][\A t \in Tasks :
          (/\ pc[t] = "idle"
           /\ pc'[t] # "idle"
           /\ ~is_running
           /\ ~(gmail_client' = t /\ supabase' = t))
          => /\ pc'[t] = "raised"
             /\ ~is_running'
             /\ cur' = NoTask
             /\ ActiveLoops' = ActiveLoops]_vars

\* C9 witness: after a start() that raised, a later start() runs the loop
C9_Witness ==
    /\ is_running
    /\ \E t, u \in Tasks :
          /\ t < u
          /\ pc[t] = "raised"
          /\ pc[u] \in CyclePcs \ {"loop"}

\* C10: whatever the collaborators do in a cycle, a loop task leaves the
\* loop only at the while test with is_running false, and is_running
\* becomes false only by stop()
C10_CollaboratorErrorsKeepLoop ==
    [][/\ \A t \in Tasks :
             (pc[t] \in CyclePcs \cup {"sleep"}
                 /\ pc'[t] \notin CyclePcs \cup {"sleep"})
             => (pc[t] = "loop" /\ ~is_running /\ pc'[t] = "done")
       /\ (is_running /\ ~is_running') => (stopped' /\ ~stopped)]_vars

\* C10 witness: a loop starts a new cycle after one in which the log append
\* raised (a processed id without record), the mark-read raised (the id is
\* still unread) and which ended while is_running was true
C10_Witness ==
    /\ is_running
    /\ \E t \in Tasks : pc[t] = "fetch"
    /\ \E id \in processed_emails : CountLog(id) = 0 /\ id \in unread

\* C11: a pipeline run that ends without completing leaves the rest of the
\* batch, is_running and the event loop with the task, and the task goes on
\* with the for loop; and every message taken from the batch that is not in
\* ProcessedSet gets its pipeline run
C11_FailureKeepsBatch ==
    [][\A t \in Tasks :
          /\ (pc[t] \in PipelinePcs /\ pc'[t] \notin PipelinePcs \cup {"add"})
             => /\ pc'[t] = "next"
                /\ emails'[t] = emails[t]
                /\ is_running' = is_running
                /\ cur' = t
          /\ (pc[t] = "next" /\ emails[t] # <<>> /\ emails'[t] # emails[t])
             => /\ emails'[t] = Tail(emails[t])
                /\ Head(emails[t]) \notin processed_emails
                      => (pc'[t] = "analyze" /\ email'[t] = Head(emails[t]))
                /\ Head(emails[t]) \in processed_emails => pc'[t] = "next"]_vars

\* C11 witness: the pipeline runs for a message although the pipeline of a
\* message earlier in the same batch (a more recent one) has raised
C11_Witness ==
    \E t \in Tasks :
        /\ pc[t] = "analyze"
        /\ \E id \in raised : id > email[t]

\* C12 (as the code has it): when a ticket is needed and the insert raises,
\* ticket_id is None and nothing is raised; the pipeline goes on exactly as
\* after a successful insert, so a reply is handed to the outbox if and only
\* if requires_human is false or the knowledge search found candidates; and
\* the record the run appends has ticket_created false and no ticket id
C12_TicketFailureDoesNotBlock ==
    /\ [](\A t \in Tasks :
             (/\ pc[t] = "log"
              /\ analysis[t].ticket_needed
              /\ ticket_id[t] = NoTicket)
             => ((send_result[t] # "none")
                    <=> (~analysis[t].requires_human \/ kb_results[t])))
    /\ [][\A t \in Tasks :
             /\ (pc[t] = "ticket" /\ pc'[t] # "ticket")
                => /\ pc'[t] = IF ~analysis[t].requires_human \/ kb_results[t]
                               THEN "generate" ELSE "log"
                   /\ email'[t] = email[t]
                   /\ analysis'[t] = analysis[t]
                   /\ ticket_id'[t] # NoTicket
                         => (/\ analysis[t].ticket_needed
                             /\ [ticket_id |-> ticket_id'[t],
                                 email_id |-> email[t]] \in tickets' \ tickets)
                   /\ ticket_id'[t] = NoTicket => tickets' = tickets
             /\ (/\ pc[t] = "log"
                 /\ pc'[t] = "add"
                 /\ ticket_id[t] = NoTicket
                 /\ interaction_log' # interaction_log)
                => interaction_log' = interaction_log (+)
                      SetToBag({[interaction_type |-> "email_processed",
                                 email_id |-> email[t],
                                 ticket_created |-> FALSE,
                                 ticket_id |-> NoTicket]})]_vars

\* C12 witness: a ticket was needed, its insert raised, and the reply of the
\* same run has been sent
C12_Witness ==
    \E t \in Tasks :
        /\ pc[t] = "log"
        /\ analysis[t].ticket_needed
        /\ ticket_id[t] = NoTicket
        /\ send_result[t] = "sent"

\* C12 as stated: whenever a ticket was needed and its insert raised, a
\* reply is handed to the outbox in the same run
C12_ReplyAlwaysSent ==
    \A t \in Tasks :
        (/\ pc[t] = "log"
         /\ analysis[t].ticket_needed
         /\ ticket_id[t] = NoTicket)
        => send_result[t] # "none"

\* ------------------------------------------------- the manual entry point
\* the names bound at module level of routes/email_automation_control.py:
\* its imports, its two module objects, its models and its route handlers
RouteNames ==
    {"APIRouter", "HTTPException", "BackgroundTasks", "BaseModel", "Dict",
     "Optional", "logging", "asyncio", "logger", "router",
     "AutomationControlRequest", "AutomationStatusResponse",
     "start_email_automation", "stop_email_automation",
     "restart_email_automation", "get_email_automation_status",
     "get_email_automation_stats", "process_email_manually",
     "test_email_automation"}

\* POST /process-email-manually with the message m.  The handler runs when
\* no loop cycle holds the event loop.  The first statement of its try block
\* reads email_automation_service, a name the module never binds: the
\* NameError is caught by `except Exception` and answered with HTTP 500
\* before initialize() or _process_single_email is reached, so no field of
\* the service and no collaborator is touched.
ProcessEmailManually(m) ==
    /\ cur = NoTask
    /\ "email_automation_service" \notin RouteNames
    /\ manual_response' = [status |-> 500, email_id |-> m]
    /\ UNCHANGED <<pc, cur, service, inbox, frame, stores, stop_requested,
                   stopped, raised, classifier, compose_args, search_args,
                   email_data, cycle>>

ManualNext ==
    \/ Next
    \/ \E m \in Ids : ProcessEmailManually(m)

ManualSpec == Init /\ [][ManualNext]_vars

\* C13: a message id handled through the manual entry point is recorded in
\* processed_emails (so that a later loop cycle fetching it skips it)
C13_ManualIsRecorded ==
    manual_response # NoResponse
        => manual_response.email_id \in processed_emails

\* ------------------------------------------------- the classifier variants
\* Confidence is a Python float.  The field confidence counts hundredths
\* (70 stands for the number written 0.7) and the field confidence_rounding
\* holds what binary64 adds to it, in units of 1 / (5 * 2^56): the float
\* is confidence / 100 + confidence_rounding / (5 * 2^56).
MaxWords == 2
MaxConfSteps == 2

\* self.categories, in the order of the dict
CategoryOrder ==
    <<"technical", "billing", "account", "general", "complaint",
      "feature_request">>

categories ==
    [technical |-> {"error", "bug", "crash", "not working", "broken",
                    "issue", "problem"},
     billing |-> {"payment", "invoice", "charge", "refund", "subscription",
                  "billing"},
     account |-> {"login", "password", "access", "account", "profile",
                  "settings"},
     general |-> {"question", "help", "how to", "information", "support"},
     complaint |-> {"angry", "frustrated", "terrible", "awful",
                    "disappointed"},
     feature_request |-> {"feature", "enhancement", "suggestion", "improve",
                          "add"}]

\* self.priority_keywords, in the order of the dict
PriorityOrder == <<"high", "medium", "low">>

priority_keywords ==
    [high |-> {"urgent", "critical", "emergency", "asap", "immediately",
               "down", "outage"},
     medium |-> {"important", "soon", "needed", "issue", "problem"},
     low |-> {"question", "when possible", "eventually", "minor"}]

\* self.sentiment_keywords, in the order of the dict
SentimentOrder == <<"positive", "negative", "neutral">>

sentiment_keywords ==
    [positive |-> {"thank", "great", "excellent", "love", "amazing",
                   "perfect"},
     negative |-> {"angry", "frustrated", "terrible", "awful", "hate",
                   "worst"},
     neutral |-> {"question", "help", "information", "please", "need"}]

\* the word lists of _determine_intent
QuestionWords == {"how", "what", "when", "where", "why", "?"}
SupportWords == {"fix", "solve", "help", "support"}
RefundWords == {"refund", "cancel", "return"}

\* the words _requires_human_review looks for in the extracted keywords
ReviewWords == {"crash", "data", "security", "breach"}

RECURSIVE UnionOver(_, _)
UnionOver(table, order) ==
    IF order = <<>> THEN {}
    ELSE table[Head(order)] \cup UnionOver(table, Tail(order))

\* every phrase some test of the rule variant looks for
Vocabulary ==
    UnionOver(categories, CategoryOrder)
        \cup UnionOver(priority_keywords, PriorityOrder)
        \cup UnionOver(sentiment_keywords, SentimentOrder)
        \cup QuestionWords \cup SupportWords \cup RefundWords \cup ReviewWords

\* a text is given by the phrases of the vocabulary written in it, each as
\* whole words
RECURSIVE SubsetsUpTo(_, _)
SubsetsUpTo(S, n) ==
    IF n = 0 THEN {{}}
    ELSE LET P == SubsetsUpTo(S, n - 1)
         IN P \cup {p \cup {w} : p \in P, w \in S}

\* subject "System outage", body "URGENT: production is down": the phrases
\* of the vocabulary that occur in "system outage urgent: production is down"
ScenarioA == {"outage", "urgent", "down"}

\* subject "Question", body "How do I export my data?": the phrases of the
\* vocabulary that occur in "question how do i export my data?"
ScenarioB == {"question", "how", "data", "?"}

\* subject "Payment error", body "the invoice shows an error": two billing
\* keywords against one technical keyword
ScenarioC == {"payment", "invoice", "error"}

Texts ==
    SubsetsUpTo(Vocabulary, MaxWords) \cup {ScenarioA, ScenarioB, ScenarioC}

\* `keyword in text` is a substring test: these phrases of the vocabulary
\* contain another one
Inside ==
    {<<"how to", "how">>, <<"needed", "need">>, <<"when possible", "when">>}

Occurs(keyword, text) ==
    \E w \in text : w = keyword \/ <<w, keyword>> \in Inside

\* sum(1 for keyword in keywords if keyword in text)
Score(keywords, text) == Cardinality({k \in keywords : Occurs(k, text)})

\* a max() that keeps the last of the entries with the highest score
LastMax(table, order, text, default) ==
    LET hits == {i \in 1..Len(order) : Score(table[order[i]], text) > 0}
        best == {i \in hits :
                    \A j \in hits : Score(table[order[j]], text)
                                       <= Score(table[order[i]], text)}
    IN IF hits = {} THEN default
       ELSE order[CHOOSE i \in best : \A j \in best : j <= i]

\* max(scores, key=scores.get) over the entries with a positive score: the
\* first entry, in the order of the dict, that has the highest score
FirstMax(table, order, text, default) ==
    LET hits == {i \in 1..Len(order) : Score(table[order[i]], text) > 0}
        best == {i \in hits :
                    \A j \in hits : Score(table[order[j]], text)
                                       <= Score(table[order[i]], text)}
    IN IF hits = {} THEN default
       ELSE order[CHOOSE i \in best : \A j \in best : i <= j]

_categorize_email(text) == FirstMax(categories, CategoryOrder, text, "general")

_determine_priority(text) ==
    LET hits == {i \in 1..Len(PriorityOrder) :
                    \E k \in priority_keywords[PriorityOrder[i]] :
                        Occurs(k, text)}
    IN IF hits = {} THEN "medium"
       ELSE PriorityOrder[CHOOSE i \in hits : \A j \in hits : i <= j]

_analyze_sentiment(text) ==
    FirstMax(sentiment_keywords, SentimentOrder, text, "neutral")

_determine_intent(text, category) ==
    IF \E w \in QuestionWords : Occurs(w, text) THEN "question"
    ELSE IF \E w \in SupportWords : Occurs(w, text) THEN "support_request"
    ELSE IF \E w \in RefundWords : Occurs(w, text) THEN "refund_request"
    ELSE IF category = "complaint" THEN "complaint"
    ELSE "support_request"

\* re.findall(r'\b\w+\b', text), words of more than three letters that are
\* no stop words; of these only the review words are ever looked up.  A
\* text of the model has fewer than ten such words, so the cut [:10] drops
\* none
_extract_keywords(text) == text \cap ReviewWords

Min(a, b) == IF a <= b THEN a ELSE b

\* the binary64 value nearest to h / 100: its distance d from h / 100 in
\* units of 1 / (5 * 2^56), the gap to its neighbours in the same units and
\* the last bit of its significand
Binary64 ==
    [h \in {50, 60, 70, 80, 90, 100} |->
        CASE h = 50 -> [d |-> 0, ulp |-> 40, odd |-> 0]
          [] h = 60 -> [d |-> 0 - 8, ulp |-> 40, odd |-> 1]
          [] h = 70 -> [d |-> 0 - 16, ulp |-> 40, odd |-> 0]
          [] h = 80 -> [d |-> 16, ulp |-> 40, odd |-> 0]
          [] h = 90 -> [d |-> 8, ulp |-> 40, odd |-> 1]
          [] h = 100 -> [d |-> 0, ulp |-> 80, odd |-> 0]]

\* the float a literal such as 0.7 denotes
Literal(h) == [h |-> h, d |-> Binary64[h].d]

\* the literal 0.1 lies 2 units above one tenth
TenthRounding == 2

\* the k-th binary64 value above (below, for k < 0) the one nearest to
\* h / 100; below 1.0 the gap is half the gap above it
Neighbour(h, k) ==
    IF h = 100 /\ k < 0 THEN 40 * k
    ELSE Binary64[h].d + Binary64[h].ulp * k

Distance(a, b) == IF a <= b THEN b - a ELSE a - b

\* round to nearest, ties to the even significand: the binary64 value a
\* float operation returns for the exact result h / 100 + s units
RoundNearestEven(h, s) ==
    LET ks == (0 - 2)..2
        best == {k \in ks : \A j \in ks :
                    Distance(s, Neighbour(h, k))
                        <= Distance(s, Neighbour(h, j))}
        k == IF Cardinality(best) = 1 THEN CHOOSE j \in best : TRUE
             ELSE CHOOSE j \in best : (Binary64[h].odd + j + 4) % 2 = 0
    IN [h |-> h, d |-> Neighbour(h, k)]

\* base_confidence += 0.1 and base_confidence -= 0.1
AddTenth(x) == RoundNearestEven(x.h + 10, x.d + TenthRounding)
SubtractTenth(x) == RoundNearestEven(x.h - 10, x.d - TenthRounding)

FloatMin(x, y) ==
    IF x.h < y.h \/ (x.h = y.h /\ x.d <= y.d) THEN x ELSE y

_calculate_confidence(category, priority, sentiment) ==
    LET c0 == Literal(70)
        c1 == IF category \in {"technical", "billing"} THEN AddTenth(c0)
              ELSE IF category = "general" THEN SubtractTenth(c0) ELSE c0
        c2 == IF priority \in {"high", "low"} THEN AddTenth(c1) ELSE c1
        c3 == IF sentiment \in {"positive", "negative"} THEN AddTenth(c2)
              ELSE c2
    IN FloatMin(c3, Literal(100))

_requires_human_review(category, priority, sentiment, keywords) ==
    IF priority = "high" \/ sentiment = "negative" THEN TRUE
    ELSE IF category = "complaint" THEN TRUE
    ELSE IF category = "technical"
            /\ \E word \in {"crash", "data", "security", "breach"} :
                   word \in keywords THEN TRUE
    ELSE IF category = "billing" THEN TRUE
    ELSE FALSE

_needs_ticket(category, priority, intent) ==
    IF priority = "high" THEN TRUE
    ELSE IF category = "technical" THEN TRUE
    ELSE IF category = "complaint" THEN TRUE
    ELSE IF intent = "support_request" /\ category # "general" THEN TRUE
    ELSE FALSE

\* the EmailAnalysis both variants return when a step of analyze_email
\* raises
_fallback_analysis ==
    [category |-> "general", priority |-> "medium", sentiment |-> "neutral",
     intent |-> "support_request", confidence |-> 50,
     confidence_rounding |-> 0, keywords |-> {},
     requires_human |-> TRUE, ticket_needed |-> TRUE]

\* the try block of AIEmailProcessor.analyze_email
RuleAnalysis(text) ==
    LET category == _categorize_email(text)
        priority == _determine_priority(text)
        sentiment == _analyze_sentiment(text)
        intent == _determine_intent(text, category)
        keywords == _extract_keywords(text)
        confidence == _calculate_confidence(category, priority, sentiment)
    IN [category |-> category, priority |-> priority,
        sentiment |-> sentiment, intent |-> intent,
        confidence |-> confidence.h,
        confidence_rounding |-> confidence.d,
        keywords |-> keywords,
        requires_human |->
            _requires_human_review(category, priority, sentiment, keywords),
        ticket_needed |-> _needs_ticket(category, priority, intent)]

\* AIEmailProcessor.analyze_email: the except branch returns the defaults
RuleAnalyzeEmail ==
    /\ variant = "rule"
    /\ returned = NoReturn
    /\ returned' = [kind |-> "value",
                    analysis |-> IF fault THEN _fallback_analysis
                                 ELSE RuleAnalysis(full_text)]
    /\ UNCHANGED <<pc, cur, service, inbox, frame, stores, stop_requested,
                   hist, manual_response, variant, full_text, fault,
                   ai_response, compose_args, search_args, email_data,
                   cycle>>

\* ------------------------------------------------------ inference variant
\* an optional key of the JSON object: <<>> when the key is missing
Opt(S) == {<<>>} \cup {<<v>> : v \in S}

\* analysis_data.get(key, default)
Get(analysis_data, key, default) ==
    IF analysis_data[key] = <<>> THEN default ELSE analysis_data[key][1]

\* the values the prompt asks for, and one string it does not list
CategoryValues ==
    {"technical", "billing", "account", "general", "complaint",
     "feature_request", "other"}
PriorityValues == {"high", "medium", "low", "other"}
SentimentValues == {"positive", "negative", "neutral", "other"}
IntentValues ==
    {"question", "support_request", "complaint", "refund_request",
     "information"}

\* JSON values under the key confidence: a number, a string that float()
\* converts, a string it rejects (ValueError), null (TypeError).  The
\* numbers are multiples of 0.25, which binary64 holds exactly
Number(n) == [json |-> "number", n |-> n]
NumericString(n) == [json |-> "string", n |-> n]
Word == [json |-> "string", s |-> "high"]
Null == [json |-> "null"]

ConfidenceNumbers == {25 * k : k \in (0 - MaxConfSteps)..(4 + MaxConfSteps)}

ConfidenceValues ==
    {Number(n) : n \in ConfidenceNumbers}
        \cup {NumericString(85), Word, Null}

\* float(value) raises
FloatRaises(value) == value \in {Word, Null}

\* the JSON objects the inference service can answer with
JsonObjects ==
    [category : Opt(CategoryValues), priority : Opt(PriorityValues),
     sentiment : Opt(SentimentValues), intent : Opt(IntentValues),
     confidence : Opt(ConfidenceValues), requires_human : Opt(BOOLEAN),
     ticket_needed : Opt(BOOLEAN)]

\* how the call of the inference service ends: no client was built
\* (self.bedrock is None), invoke_model raises, the answer has no braces,
\* the text between the braces is no JSON, or it is a JSON object
AIResponses ==
    {[kind |-> k] : k \in {"unavailable", "error", "no_json", "bad_json"}}
        \cup {[kind |-> "json", data |-> d] : d \in JsonObjects}

\* the try block of _parse_ai_analysis raises
ParseRaises(r) ==
    \/ r.kind \in {"no_json", "bad_json"}
    \/ /\ r.kind = "json"
       /\ r.data.confidence # <<>>
       /\ FloatRaises(r.data.confidence[1])

\* the EmailAnalysis built from the JSON object; the keywords list is
\* carried over as it is and is not modelled
ParsedAnalysis(analysis_data) ==
    [category |-> Get(analysis_data, "category", "general"),
     priority |-> Get(analysis_data, "priority", "medium"),
     sentiment |-> Get(analysis_data, "sentiment", "neutral"),
     intent |-> Get(analysis_data, "intent", "support_request"),
     confidence |-> Get(analysis_data, "confidence", Number(70)).n,
     confidence_rounding |->
         IF analysis_data.confidence = <<>> THEN Literal(70).d ELSE 0,
     keywords |-> {},
     requires_human |-> Get(analysis_data, "requires_human", FALSE),
     ticket_needed |-> Get(analysis_data, "ticket_needed", TRUE)]

_parse_ai_analysis(r) ==
    IF ParseRaises(r) THEN _fallback_analysis ELSE ParsedAnalysis(r.data)

\* BedrockAIProcessor.analyze_email
BedrockAnalysis(r) ==
    IF r.kind \in {"unavailable", "error"} THEN _fallback_analysis
    ELSE _parse_ai_analysis(r)

\* a failure of the parse is not caught
BedrockAnalyzeEmailPropagates ==
    /\ variant = "bedrock"
    /\ ai_response # NoReply
    /\ returned = NoReturn
    /\ returned' = IF ai_response.kind \notin {"unavailable", "error"}
                      /\ ParseRaises(ai_response)
                   THEN [kind |-> "raised"]
                   ELSE [kind |-> "value",
                         analysis |-> BedrockAnalysis(ai_response)]
    /\ UNCHANGED <<pc, cur, service, inbox, frame, stores, stop_requested,
                   hist, manual_response, variant, full_text, fault,
                   ai_response, compose_args, search_args, email_data,
                   cycle>>

BedrockAnalyzeEmail ==
    /\ variant = "bedrock"
    /\ ai_response # NoReply
    /\ returned = NoReturn
    /\ returned' = [kind |-> "value",
                    analysis |-> BedrockAnalysis(ai_response)]
    /\ UNCHANGED <<pc, cur, service, inbox, frame, stores, stop_requested,
                   hist, manual_response, variant, full_text, fault,
                   ai_response, compose_args, search_args, email_data,
                   cycle>>

\* one call of analyze_email on a classifier object, for every text the
\* rule variant can be given and every answer of the inference service
ClassifierInit ==
    /\ ServiceInit
    /\ ComposerIdle
    /\ MatcherIdle
    /\ FetchIdle
    /\ returned = NoReturn
    /\ \/ /\ variant = "rule"
          /\ full_text \in Texts
          /\ fault \in BOOLEAN
          /\ ai_response = NoReply
       \/ /\ variant = "bedrock"
          /\ full_text = {}
          /\ fault = FALSE
          /\ ai_response \in AIResponses

ClassifierNext ==
    \/ RuleAnalyzeEmail
    \/ BedrockAnalyzeEmail

ClassifierSpec == ClassifierInit /\ [][ClassifierNext]_vars

\* the ticket decision of _process_single_email: _create_support_ticket is
\* called exactly when analysis.ticket_needed holds
TicketSubmitted(a) == a.ticket_needed

\* C14: a ticket is submitted for a message if and only if its Analysis
\* has priority high, or category technical or complaint, or intent
\* support_request with a category other than general.  The fail-safe
\* Analysis, which is defined with ticket_needed true, is left aside.
C14_TicketIffRule ==
    (/\ returned # NoReturn
     /\ returned.kind = "value"
     /\ returned.analysis # _fallback_analysis)
        => (TicketSubmitted(returned.analysis)
                <=> \/ returned.analysis.priority = "high"
                    \/ returned.analysis.category
                           \in {"technical", "complaint"}
                    \/ /\ returned.analysis.intent = "support_request"
                       /\ returned.analysis.category # "general")

\* C15: every Analysis analyze_email returns, from either variant, has
\* ticket_needed true whenever priority is high or category is technical or
\* complaint
C15_HighOrTechnicalNeedsTicket ==
    (returned # NoReturn /\ returned.kind = "value")
        => ((\/ returned.analysis.priority = "high"
             \/ returned.analysis.category \in {"technical", "complaint"})
                => returned.analysis.ticket_needed)

\* C16: every Analysis analyze_email returns, from either variant, has
\* requires_human true whenever priority is high, sentiment is negative or
\* category is complaint or billing
C16_RiskRequiresHuman ==
    (returned # NoReturn /\ returned.kind = "value")
        => ((\/ returned.analysis.priority = "high"
             \/ returned.analysis.sentiment = "negative"
             \/ returned.analysis.category \in {"complaint", "billing"})
                => returned.analysis.requires_human)

\* C17: every Analysis analyze_email returns, from either variant, has a
\* confidence within [0, 1]
C17_ConfidenceInUnitInterval ==
    (returned # NoReturn /\ returned.kind = "value")
        => (0 <= returned.analysis.confidence
            /\ returned.analysis.confidence <= 100)

\* a step inside analyze_email fails: a statement of the rule variant
\* raises, no inference client exists, the inference call raises, or its
\* answer cannot be parsed into an EmailAnalysis
InternalFailure ==
    \/ variant = "rule" /\ fault
    \/ /\ variant = "bedrock"
       /\ ai_response # NoReply
       /\ \/ ai_response.kind \in {"unavailable", "error", "no_json",
                                   "bad_json"}
          \/ /\ ai_response.data.confidence # <<>>
             /\ ai_response.data.confidence[1].json \in {"string", "null"}
             /\ "n" \notin DOMAIN ai_response.data.confidence[1]

\* C18: analyze_email never raises to its caller, and after any internal
\* failure it returns exactly the fail-safe Analysis: category general,
\* priority medium, sentiment neutral, confidence 0.5, requires_human true,
\* ticket_needed true
C18_AnalyzeNeverRaises ==
    returned # NoReturn
        => /\ returned.kind = "value"
           /\ InternalFailure
                => /\ returned.analysis.category = "general"
                   /\ returned.analysis.priority = "medium"
                   /\ returned.analysis.sentiment = "neutral"
                   /\ returned.analysis.confidence = 50
                   /\ returned.analysis.requires_human
                   /\ returned.analysis.ticket_needed

\* C18 witness: the inference service answered with braces around text
\* that is no JSON, and analyze_email returned the fail-safe Analysis
C18_Witness ==
    /\ variant = "bedrock"
    /\ ai_response # NoReply
    /\ ai_response.kind = "bad_json"
    /\ returned # NoReturn
    /\ returned.kind = "value"
    /\ returned.analysis.confidence = 50
    /\ returned.analysis.requires_human

\* ---------------------------------------------------- the response composer
\* Similarity is counted in hundredths: 92 stands for 0.92.
MaxCandidates == 2

SimilarityValues == {50, 70, 92}
NoContent == 0

\* a knowledge candidate: a dict that may carry the key similarity_score
\* (the key EmbeddingSearch.search sorts by), the key similarity (the key of
\* the candidates search_knowledge_base_ai builds), and its content
Candidates ==
    [similarity_score : Opt(SimilarityValues),
     similarity : Opt(SimilarityValues),
     content : 1..MaxCandidates]

RECURSIVE SeqsUpTo(_, _)
SeqsUpTo(S, n) ==
    IF n = 0 THEN {<<>>}
    ELSE LET P == SeqsUpTo(S, n - 1)
         IN P \cup {Append(p, x) : p \in P, x \in S}

\* the analysis and kb_results arguments of generate_response
ComposeArgs ==
    [analysis : [category : CategoryValues, ticket_needed : BOOLEAN],
     kb_results : SeqsUpTo(Candidates, MaxCandidates)]

\* how the inference call of generate_response ends: no client, the call
\* raises, or a text; the text is free, it can repeat the content of one of
\* the candidates the prompt lists (kb_results[:3]) or of none
ReplyResponses(args) ==
    {[kind |-> k] : k \in {"unavailable", "error"}}
        \cup {[kind |-> "text", embeds |-> i] :
                 i \in 0..Min(Len(args.kb_results), 3)}

\* The text of a reply is given by its parts in their order: "text" for
\* wording that says nothing about a ticket, "ticket_note" for a sentence
\* saying that a support ticket has been created, "signature" for the
\* closing "Best regards, SuperTickets.AI Support Team", and
\* "ticket_reference" for the line "Ticket Reference: #...".

\* _generate_solution_response: the solution, then "I've created a support
\* ticket for further assistance", then the signature
SolutionLines == <<"text", "ticket_note", "text", "signature">>

\* the category templates: every one but _generate_feature_request_response
\* says that a support ticket has been created
TemplateLines(category) ==
    IF category = "feature_request" THEN <<"text", "signature">>
    ELSE <<"text", "ticket_note", "text", "signature">>

\* _format_response: the stripped text of the service, the ticket sentence
\* when analysis.ticket_needed, the signature
FormattedLines(a) ==
    <<"text">>
        \o (IF a.ticket_needed THEN <<"ticket_note">> ELSE <<>>)
        \o <<"signature">>

\* _fallback_response: "A support ticket has been created and " opens its
\* second paragraph when analysis.ticket_needed
FallbackLines(a) ==
    <<"text">>
        \o (IF a.ticket_needed THEN <<"ticket_note">> ELSE <<>>)
        \o <<"text", "signature">>

\* the try block of AIEmailProcessor.generate_response
RuleResponse(args) ==
    IF /\ args.kb_results # <<>>
       /\ Get(args.kb_results[1], "similarity", 0) > 70
    THEN [style |-> "solution", category |-> args.analysis.category,
          content |-> args.kb_results[1].content, lines |-> SolutionLines]
    ELSE LET category == IF args.analysis.category
                              \in {"technical", "billing", "account",
                                   "complaint", "feature_request"}
                         THEN args.analysis.category ELSE "general"
         IN [style |-> "template", category |-> category,
             content |-> NoContent, lines |-> TemplateLines(category)]

\* BedrockAIProcessor.generate_response: _fallback_response when there is
\* no client or the call raises, else the formatted text of the service
BedrockResponse(args, r) ==
    IF r.kind \in {"unavailable", "error"}
    THEN [style |-> "fallback", category |-> args.analysis.category,
          content |-> NoContent, lines |-> FallbackLines(args.analysis)]
    ELSE [style |-> "generated", category |-> args.analysis.category,
          content |-> IF r.embeds = 0 THEN NoContent
                      ELSE args.kb_results[r.embeds].content,
          lines |-> FormattedLines(args.analysis)]

RuleGenerateResponse ==
    /\ variant = "rule"
    /\ compose_args # NoArgs
    /\ returned = NoReturn
    /\ returned' = [kind |-> "value", reply |-> RuleResponse(compose_args)]
    /\ UNCHANGED <<pc, cur, service, inbox, frame, stores, stop_requested,
                   hist, manual_response, variant, full_text, fault,
                   ai_response, compose_args, search_args, email_data,
                   cycle>>

BedrockGenerateResponse ==
    /\ variant = "bedrock"
    /\ compose_args # NoArgs
    /\ returned = NoReturn
    /\ returned' = [kind |-> "value",
                    reply |-> BedrockResponse(compose_args, ai_response)]
    /\ UNCHANGED <<pc, cur, service, inbox, frame, stores, stop_requested,
                   hist, manual_response, variant, full_text, fault,
                   ai_response, compose_args, search_args, email_data,
                   cycle>>

\* the ticket_id _create_support_ticket returned when it returned one
TicketIds == {1}

\* the response argument with "Ticket Reference: #..." added at its end
\* when ticket_id is not None
ResponseBody(lines, tid) ==
    IF tid # NoTicket THEN lines \o <<"ticket_reference">> ELSE lines

\* _send_automated_response up to the call of gmail_client.send_email, on
\* the reply generate_response returned and the ticket_id of step 3, which
\* is None unless analysis.ticket_needed held and the insert succeeded
SendAutomatedResponse(tid) ==
    /\ returned # NoReturn
    /\ compose_args # NoArgs
    /\ email_data = NoArgs
    /\ tid # NoTicket => compose_args.analysis.ticket_needed
    /\ email_data' = [ticket_id |-> tid,
                      body |-> ResponseBody(returned.reply.lines, tid)]
    /\ UNCHANGED <<pc, cur, service, inbox, frame, stores, stop_requested,
                   hist, manual_response, classifier, compose_args,
                   search_args, cycle>>

\* one call of generate_response on a classifier object, for every
\* category and every list of candidates, and the reply on its way to the
\* outbox
ComposerInit ==
    /\ ServiceInit
    /\ MatcherIdle
    /\ FetchIdle
    /\ email_data = NoArgs
    /\ full_text = {}
    /\ fault = FALSE
    /\ returned = NoReturn
    /\ compose_args \in ComposeArgs
    /\ \/ variant = "rule" /\ ai_response = NoReply
       \/ variant = "bedrock" /\ ai_response \in ReplyResponses(compose_args)

ComposerNext ==
    \/ RuleGenerateResponse
    \/ BedrockGenerateResponse
    \/ \E tid \in TicketIds \cup {NoTicket} : SendAutomatedResponse(tid)

ComposerSpec == ComposerInit /\ [][ComposerNext]_vars

\* C19: when the best candidate passed to generate_response has a
\* similarity_score above 0.7 the reply embeds that candidate's content and
\* is no category template or generic acknowledgement; when its
\* similarity_score is 0.7 or less the reply is no solution-style reply
C19_SolutionIffAboveThreshold ==
    (/\ returned # NoReturn
     /\ compose_args # NoArgs
     /\ compose_args.kb_results # <<>>
     /\ compose_args.kb_results[1].similarity_score # <<>>)
        => LET best == compose_args.kb_results[1]
           IN /\ best.similarity_score[1] > 70
                    => /\ returned.reply.content = best.content
                       /\ returned.reply.style \notin {"template", "fallback"}
              /\ best.similarity_score[1] <= 70
                    => /\ returned.reply.style # "solution"
                       /\ returned.reply.content = NoContent

\* ---------------------------------------------------- the knowledge matcher
MaxRows == 3

\* similarity scores in hundredths; a cosine similarity can be negative
RowScores == {0 - 20, 80, 95}
RowCategories == {"technical", "billing"}

\* a row the knowledge store answers with
Rows == [similarity_score : Opt(RowScores), category : Opt(RowCategories)]

\* the category_filter argument; "" stands for the values Python takes as
\* false (None, ""), for which the filter is skipped
NoFilter == ""

\* how create_embedding and supabase.search_knowledge_base end: one of
\* them raises, or the store returns a list of rows
StoreAnswers ==
    {[kind |-> "error"]}
        \cup {[kind |-> "rows", rows |-> rs] : rs \in SeqsUpTo(Rows, MaxRows)}

SearchArgs ==
    [category_filter : RowCategories \cup {NoFilter}, store : StoreAnswers]

\* key=lambda x: x.get("similarity_score", 0)
SortKey(x) == Get(x, "similarity_score", 0)

\* the list as it is, the filter left out
Unfiltered(results, category_filter) == results

\* [r for r in results if r.get("category") == category_filter]
RECURSIVE FilterByCategory(_, _)
FilterByCategory(results, category_filter) ==
    IF results = <<>> THEN <<>>
    ELSE LET rest == FilterByCategory(Tail(results), category_filter)
         IN IF Head(results).category = <<category_filter>>
            THEN <<Head(results)>> \o rest
            ELSE rest

\* x is put behind the rows whose key is at least the key of x
RECURSIVE InsertDescending(_, _)
InsertDescending(sorted, x) ==
    IF sorted = <<>> THEN <<x>>
    ELSE IF SortKey(Head(sorted)) >= SortKey(x)
         THEN <<Head(sorted)>> \o InsertDescending(Tail(sorted), x)
         ELSE <<x>> \o sorted

\* the list as it is, the sort left out
Unsorted(results) == results

\* results.sort(key=..., reverse=True): a stable sort, rows with equal keys
\* keep their order
RECURSIVE SortDescending(_)
SortDescending(results) ==
    IF results = <<>> THEN <<>>
    ELSE InsertDescending(
             SortDescending(SubSeq(results, 1, Len(results) - 1)),
             results[Len(results)])

\* the try block of EmbeddingSearch.search once the store has answered
SearchResults(args) ==
    SortDescending(IF args.category_filter # NoFilter
                   THEN FilterByCategory(args.store.rows,
                                         args.category_filter)
                   ELSE args.store.rows)

\* EmbeddingSearch.search: an exception of a collaborator is logged and
\* raised again
Search ==
    /\ search_args # NoArgs
    /\ returned = NoReturn
    /\ returned' = IF search_args.store.kind = "error"
                   THEN [kind |-> "raised"]
                   ELSE [kind |-> "value",
                         results |-> SearchResults(search_args)]
    /\ UNCHANGED <<pc, cur, service, inbox, frame, stores, stop_requested,
                   hist, manual_response, variant, full_text, fault,
                   ai_response, compose_args, search_args, email_data,
                   cycle>>

\* one call of search, for every filter and every answer of the store
MatcherInit ==
    /\ ServiceInit
    /\ ClassifierIdle
    /\ ComposerIdle
    /\ FetchIdle
    /\ search_args \in SearchArgs

MatcherNext == Search

MatcherSpec == MatcherInit /\ [][MatcherNext]_vars

\* C20: the sequence search returns is non-increasing in similarity_score,
\* with and without a category filter (a row without the key counts as 0,
\* as in the sort key), and it holds the rows the store returned, those of
\* another category removed when a filter is given
C20_ResultsNonIncreasing ==
    (returned # NoReturn /\ search_args # NoArgs /\ returned.kind = "value")
        => LET out == returned.results
               kept == {i \in 1..Len(search_args.store.rows) :
                           search_args.category_filter # NoFilter
                               => search_args.store.rows[i].category
                                     = <<search_args.category_filter>>}
           IN /\ \A i \in 1..(Len(out) - 1) :
                     Get(out[i], "similarity_score", 0)
                         >= Get(out[i + 1], "similarity_score", 0)
              /\ Len(out) = Cardinality(kept)
              /\ \A r \in Rows :
                     Cardinality({i \in 1..Len(out) : out[i] = r})
                         = Cardinality({i \in kept :
                                           search_args.store.rows[i] = r})

\* C20 witness: the store returned rows in increasing order of score, a
\* filter was given, and search returned more than one row
C20_Witness ==
    /\ returned # NoReturn
    /\ search_args # NoArgs
    /\ returned.kind = "value"
    /\ search_args.category_filter # NoFilter
    /\ Len(returned.results) >= 2
    /\ Len(search_args.store.rows) > Len(returned.results)
    /\ \E i \in 1..(Len(search_args.store.rows) - 1) :
           /\ search_args.store.rows[i].category
                 = <<search_args.category_filter>>
           /\ search_args.store.rows[i + 1].category
                 = <<search_args.category_filter>>
           /\ SortKey(search_args.store.rows[i])
                 < SortKey(search_args.store.rows[i + 1])

\* C21: for the message with subject "System outage" and body "URGENT:
\* production is down" analyze_email returns category technical, priority
\* high, ticket_needed true and requires_human true
C21_OutageIsTechnicalHigh ==
    (/\ returned # NoReturn
     /\ variant = "rule"
     /\ ~fault
     /\ full_text = ScenarioA
     /\ returned.kind = "value")
        => /\ returned.analysis.category = "technical"
           /\ returned.analysis.priority = "high"
           /\ returned.analysis.ticket_needed
           /\ returned.analysis.requires_human

\* C22: for the message with subject "Question" and body "How do I export
\* my data?" analyze_email returns priority medium, and ticket_needed false
\* unless intent is support_request and category is not general
C22_ExportQuestionIsMedium ==
    (/\ returned # NoReturn
     /\ variant = "rule"
     /\ ~fault
     /\ full_text = ScenarioB
     /\ returned.kind = "value")
        => /\ returned.analysis.priority = "medium"
           /\ ~(/\ returned.analysis.intent = "support_request"
                /\ returned.analysis.category # "general")
                 => ~returned.analysis.ticket_needed

\* the positions of a part in a body
Positions(body, part) == {i \in 1..Len(body) : body[i] = part}

\* C23: the reply handed to the outbox has a ticket-reference line if and
\* only if a ticket was created for the message (ticket_id is not None),
\* and that line stands before the closing signature
C23_TicketReferenceBeforeSignature ==
    email_data # NoArgs
        => /\ (Positions(email_data.body, "ticket_reference") # {})
                 <=> (email_data.ticket_id # NoTicket)
           /\ \A i \in Positions(email_data.body, "ticket_reference") :
                 \A j \in Positions(email_data.body, "signature") : i < j

\* the step that may follow each step of the pipeline; "next" ends the run
\* of the message
StepsAfter(step) ==
    CASE step = "analyze" -> {"search"}
      [] step = "search" -> {"ticket", "next"}
      [] step = "ticket" -> {"generate", "log"}
      [] step = "generate" -> {"send"}
      [] step = "send" -> {"log"}
      [] step = "log" -> {"add"}
      [] step = "add" -> {"mark"}
      [] step = "mark" -> {"next"}

\* C24: for each message the loop processes the steps come in the order
\* classify, knowledge search, ticket decision and creation, compose reply,
\* send reply, append the record, add the id to processed_emails, mark read;
\* a step starts only when the one before it has returned, and each side
\* effect happens in its own step
C24_StepsInOrder ==
    /\ [](\A t \in Tasks : pc[t] \in InFlightPcs
             => /\ cur = t
                /\ \A u \in Tasks \ {t} : pc[u] \notin InFlightPcs)
    /\ [][/\ \A t \in Tasks :
                (pc[t] \in InFlightPcs /\ pc'[t] # pc[t])
                    => /\ pc'[t] \in StepsAfter(pc[t])
                       /\ pc'[t] # "next" => email'[t] = email[t]
          /\ tickets' # tickets => \E t \in Tasks : pc[t] = "ticket"
          /\ sent' # sent => \E t \in Tasks : pc[t] = "send"
          /\ interaction_log' # interaction_log
                => \E t \in Tasks : pc[t] = "log"
          /\ processed_emails' # processed_emails
                => \E t \in Tasks : pc[t] = "add"
          /\ unread' \subseteq unread /\ unread' # unread
                => \E t \in Tasks : pc[t] = "mark"]_vars

\* C24 witness: a message has gone through every step up to the mark-read
\* call: its ticket, its reply and its record exist and its id is recorded
C24_Witness ==
    \E t \in Tasks :
        /\ pc[t] = "mark"
        /\ CountTickets(email[t]) = 1
        /\ CountSent(email[t]) = 1
        /\ CountLog(email[t]) = 1
        /\ email[t] \in processed_emails

\* C25: mark-read is attempted only for an id that is in processed_emails
\* and was added to it in this very run; whether it succeeds or fails the
\* call changes nothing but the unread label, the id stays recorded and the
\* batch goes on; a later cycle that fetches the message still unread skips
\* it without any side effect and without another mark-read
C25_MarkReadBestEffort ==
    /\ [](\A t \in Tasks : pc[t] = "mark" => email[t] \in processed_emails)
    /\ [][\A t \in Tasks :
             /\ (pc[t] # "mark" /\ pc'[t] = "mark")
                   => (pc[t] = "add" /\ email[t] \notin processed_emails)
             /\ (pc[t] = "mark" /\ pc'[t] # "mark")
                   => /\ pc'[t] = "next"
                      /\ cur' = t
                      /\ unread' \in {unread, unread \ {email[t]}}
                      /\ emails'[t] = emails[t]
                      /\ UNCHANGED <<service, stores, arrived>>
             /\ (/\ pc[t] = "next"
                 /\ emails[t] # <<>>
                 /\ emails'[t] # emails[t]
                 /\ Head(emails[t]) \in processed_emails)
                   => /\ pc'[t] = "next"
                      /\ UNCHANGED <<service, stores, inbox>>]_vars

\* C25 witness: the mark-read of a processed message has failed, the message
\* is fetched again still unread, and the loop is about to skip it
C25_Witness ==
    \E t \in Tasks :
        /\ pc[t] = "next"
        /\ emails[t] # <<>>
        /\ Head(emails[t]) \in processed_emails \cap unread
        /\ CountLog(Head(emails[t])) = 1

\* C26: when sending the reply fails the run goes on to the log step with
\* the ticket it created untouched, and the record that step appends
\* carries that ticket
C26_SendFailureKeepsLogAndTicket ==
    /\ [](\A t \in Tasks :
             (pc[t] = "log" /\ send_result[t] = "failed"
                  /\ ticket_id[t] # NoTicket)
                => [ticket_id |-> ticket_id[t], email_id |-> email[t]]
                       \in tickets)
    /\ [][\A t \in Tasks :
             /\ (pc[t] = "send" /\ pc'[t] # "send")
                   => /\ pc'[t] = "log"
                      /\ send_result'[t] \in {"sent", "failed"}
                      /\ send_result'[t] = "failed" => sent' = sent
                      /\ email'[t] = email[t]
                      /\ ticket_id'[t] = ticket_id[t]
                      /\ UNCHANGED <<tickets, interaction_log>>
             /\ (pc[t] = "log" /\ pc'[t] # "log"
                     /\ send_result[t] = "failed")
                   => /\ pc'[t] = "add"
                      /\ tickets' = tickets
                      /\ interaction_log' # interaction_log
                            => interaction_log' = interaction_log (+)
                                  SetToBag({[interaction_type |->
                                                 "email_processed",
                                             email_id |-> email[t],
                                             ticket_created |->
                                                 (ticket_id[t] # NoTicket),
                                             ticket_id |-> ticket_id[t]]})
         ]_vars

\* C26 witness: the send failed for a message with a ticket, and the record
\* naming that ticket has been appended
C26_Witness ==
    \E t \in Tasks :
        /\ pc[t] = "add"
        /\ send_result[t] = "failed"
        /\ CountSent(email[t]) = 0
        /\ \E r \in BagToSet(interaction_log) :
              /\ r.email_id = email[t]
              /\ r.ticket_created
              /\ [ticket_id |-> r.ticket_id, email_id |-> email[t]]
                    \in tickets

\* ------------------------------------------------------ fair scheduling
\* the steps of the task running start_monitoring: the event loop resumes a
\* ready coroutine, the timer of asyncio.sleep expires and every blocking
\* collaborator call returns or raises
LoopStep(t) ==
    \/ LoopCheck(t)
    \/ Wake(t)
    \/ FetchEmails(t)
    \/ NextEmail(t)
    \/ AnalyzeEmail(t)
    \/ SearchKnowledgeBase(t)
    \/ CreateTicket(t)
    \/ GenerateResponse(t)
    \/ SendResponse(t)
    \/ LogProcessing(t)
    \/ AddProcessed(t)
    \/ MarkAsRead(t)

\* the service under an event loop that lets every loop task take its next
\* step; callers of start() and stop() and the inbox owe nothing
FairSpec == Spec /\ \A t \in Tasks : WF_vars(LoopStep(t))

\* C27: once stop() has run on a service whose loop is alive, either
\* start() is called again or the task of the loop terminates
C27_StoppedLoopExits ==
    \A t \in Tasks :
        (stopped /\ t \in ActiveLoops \cup {u \in Tasks : pc[u] = "sleep"})
            ~> (~stopped \/ pc[t] \in {"done", "raised"})

\* C27 witness: stop() ran on a loop that had handled a message, and the
\* task has left the loop since with no other call of start() alive
C27_Witness ==
    \E t \in Tasks :
        /\ pc[t] = "done"
        /\ stopped
        /\ ~is_running
        /\ \E id \in processed_emails : CountLog(id) = 1
        /\ \A u \in Tasks : pc[u] \in {"idle", "done"}

\* -------------------------------------------- one cycle on a large inbox
\* the largest number of unread messages of the last hour
MaxInbox == 11

\* what a cycle can find: the unread messages 1..n, the one whose payload
\* _parse_email_message cannot read, the ProcessedSet left by earlier
\* cycles (a processed message stays unread when mark-as-read failed),
\* whether the modify call of _mark_email_as_read is refused, and whether
\* the list call, the get call and the pipeline can raise
CyclesOf(ns, bs, ps, flaky) ==
    {[unread |-> 1..n, unparsable |-> b, processed |-> p,
      mark_fails |-> f, flaky |-> flaky, at |-> "list", listed |-> {},
      messages |-> <<>>, emails |-> <<>>, handled |-> <<>>] :
        n \in ns, b \in bs, p \in ps, f \in BOOLEAN}

Cycles ==
    CyclesOf(0..MaxInbox, SubsetsUpTo(1..MaxInbox, 1),
             {{}, {MaxInbox}, {1, 2}}, TRUE)

FetchFrame ==
    <<pc, cur, service, inbox, frame, stores, stop_requested, hist,
      manual_response, classifier, compose_args, search_args, email_data>>

\* _fetch_emails, the list call: the first page, or the except clause
ListMessages ==
    /\ cycle # NoArgs
    /\ cycle.at = "list"
    /\ \/ LET page == FirstPage(NewestFirst(cycle.unread))
          IN cycle' = [cycle EXCEPT
                         !.messages = page,
                         !.listed = {page[i] : i \in 1..Len(page)},
                         !.at = "get"]
       \/ /\ cycle.flaky
          /\ cycle' = [cycle EXCEPT !.at = "for"]
    /\ UNCHANGED FetchFrame

\* _fetch_emails, one turn of `for message in messages`: the get and the
\* parse of a listed message (None is dropped), the return after the last
\* one, or the except clause returning []
GetMessage ==
    /\ cycle # NoArgs
    /\ cycle.at = "get"
    /\ IF cycle.messages = <<>>
       THEN cycle' = [cycle EXCEPT !.at = "for"]
       ELSE LET m == Head(cycle.messages)
            IN \/ cycle' = [cycle EXCEPT
                              !.messages = Tail(@),
                              !.emails = IF m \in cycle.unparsable
                                         THEN @ ELSE Append(@, m)]
               \/ /\ cycle.flaky
                  /\ cycle' = [cycle EXCEPT !.messages = <<>>,
                                            !.emails = <<>>,
                                            !.at = "for"]
    /\ UNCHANGED FetchFrame

\* _process_new_emails, one turn of `for email in emails`: skip a processed
\* id, else run the pipeline; when it returns the id is added to
\* processed_emails and _mark_email_as_read removes the UNREAD label unless
\* the call is refused; when it raises the message is left as it is
ProcessNext ==
    /\ cycle # NoArgs
    /\ cycle.at = "for"
    /\ IF cycle.emails = <<>>
       THEN cycle' = [cycle EXCEPT !.at = "sleep"]
       ELSE LET e == Head(cycle.emails)
            IN IF e \in cycle.processed
               THEN cycle' = [cycle EXCEPT !.emails = Tail(@)]
               ELSE \/ cycle' = [cycle EXCEPT
                                   !.emails = Tail(@),
                                   !.handled = Append(@, e),
                                   !.processed = @ \cup {e},
                                   !.unread = IF cycle.mark_fails THEN @
                                              ELSE @ \ {e}]
                    \/ /\ cycle.flaky
                       /\ cycle' = [cycle EXCEPT
                                      !.emails = Tail(@),
                                      !.handled = Append(@, e)]
    /\ UNCHANGED FetchFrame

FetchInit ==
    /\ ServiceInit
    /\ ClassifierIdle
    /\ ComposerIdle
    /\ MatcherIdle
    /\ cycle \in Cycles

FetchNext == ListMessages \/ GetMessage \/ ProcessNext

FetchSpec == FetchInit /\ [][FetchNext]_vars

\* C28: a cycle lists, fetches and runs the pipeline for at most MaxResults
\* messages, each of them a message the list call returned and none twice
C28_AtMostBatchSize ==
    cycle # NoArgs
        => /\ Len(cycle.messages) + Len(cycle.emails) <= MaxResults
           /\ Len(cycle.handled) + Len(cycle.emails) <= MaxResults
           /\ cycle.at = "get"
                 => Len(cycle.messages) + Len(cycle.emails)
                       + Len(cycle.handled) <= MaxResults
           /\ Cardinality(cycle.listed) <= MaxResults
           /\ \A i \in 1..Len(cycle.handled) :
                 /\ cycle.handled[i] \in cycle.listed
                 /\ \A j \in 1..Len(cycle.handled) :
                       cycle.handled[i] = cycle.handled[j] => i = j

\* C28 witness: the inbox held more unread messages than MaxResults and the
\* cycle ended after MaxResults pipeline runs
C28_Witness ==
    /\ cycle # NoArgs
    /\ cycle.at = "sleep"
    /\ Cardinality(cycle.unread) > MaxResults
    /\ Len(cycle.handled) = MaxResults

\* C29: a search with a category filter returns rows of exactly that
\* category, returns every row of that category the store answered with,
\* and never more rows than the store answered with
C29_FilterKeepsOnlyCategory ==
    (returned # NoReturn /\ search_args # NoArgs /\ returned.kind = "value"
         /\ search_args.category_filter # NoFilter)
        => LET rows == search_args.store.rows
               out == returned.results
               wanted == <<search_args.category_filter>>
           IN /\ \A i \in 1..Len(out) : out[i].category = wanted
              /\ Len(out) <= Len(rows)
              /\ Len(out) = Cardinality({i \in 1..Len(rows) :
                                            rows[i].category = wanted})
              /\ \A i \in 1..Len(rows) :
                    rows[i].category = wanted
                        => \E j \in 1..Len(out) : out[j] = rows[i]

\* C29 witness: the store answered with a row of the wanted category, a row
\* of another category and a row without category, and only the first is
\* returned
C29_Witness ==
    /\ returned # NoReturn
    /\ search_args # NoArgs
    /\ returned.kind = "value"
    /\ search_args.category_filter # NoFilter
    /\ Len(returned.results) = 1
    /\ \E i, j \in 1..Len(search_args.store.rows) :
          /\ search_args.store.rows[i].category = <<>>
          /\ search_args.store.rows[j].category
                \notin {<<>>, <<search_args.category_filter>>}

\* C30: in the rule variant the priority is high when a high keyword occurs
\* in the text, otherwise low when a low keyword occurs, otherwise medium,
\* whatever other keywords the text holds
C30_PriorityHighThenLow ==
    (/\ returned # NoReturn
     /\ variant = "rule"
     /\ ~fault
     /\ returned.kind = "value")
        => returned.analysis.priority
              = IF \E k \in priority_keywords.high : Occurs(k, full_text)
                THEN "high"
                ELSE IF \E k \in priority_keywords.low : Occurs(k, full_text)
                     THEN "low"
                     ELSE "medium"

\* the place of a category in the table of the rule variant
CategoryIndex(c) == CHOOSE i \in 1..Len(CategoryOrder) : CategoryOrder[i] = c

\* C31: the category of the rule variant has the highest keyword count, no
\* category declared before it has the same count, and it is general when
\* no keyword of any category occurs
C31_CategoryIsFirstArgmax ==
    (/\ returned # NoReturn
     /\ variant = "rule"
     /\ ~fault
     /\ returned.kind = "value")
        => LET c == returned.analysis.category
               count(x) == Score(categories[x], full_text)
           IN /\ c \in DOMAIN categories
              /\ IF \A i \in 1..Len(CategoryOrder) :
                       count(CategoryOrder[i]) = 0
                 THEN c = "general"
                 ELSE /\ count(c) > 0
                      /\ \A i \in 1..Len(CategoryOrder) :
                            /\ count(CategoryOrder[i]) <= count(c)
                            /\ i < CategoryIndex(c)
                                  => count(CategoryOrder[i]) < count(c)

\* C31 witness: two categories tie and the one declared first is returned
C31_Witness ==
    /\ returned # NoReturn
    /\ variant = "rule"
    /\ ~fault
    /\ returned.kind = "value"
    /\ returned.analysis.category = "billing"
    /\ Score(categories.billing, full_text) = 1
    /\ Score(categories.complaint, full_text) = 1

\* C32: in the rule variant confidence is the number 0.7, plus 0.1 for
\* category technical or billing, minus 0.1 for general, plus 0.1 for
\* priority high or low, plus 0.1 for sentiment positive or negative,
\* capped at 1.0, and it is never below 0.6
C32_ConfidenceFormula ==
    (/\ returned # NoReturn
     /\ variant = "rule"
     /\ ~fault
     /\ returned.kind = "value")
        => LET a == returned.analysis
               sum == 70
                      + (IF a.category \in {"technical", "billing"}
                         THEN 10 ELSE 0)
                      - (IF a.category = "general" THEN 10 ELSE 0)
                      + (IF a.priority \in {"high", "low"} THEN 10 ELSE 0)
                      + (IF a.sentiment \in {"positive", "negative"}
                         THEN 10 ELSE 0)
               expected == Literal(Min(sum, 100))
               got == [h |-> a.confidence, d |-> a.confidence_rounding]
           IN /\ got = expected
              /\ FloatMin(Literal(60), got) = Literal(60)

\* C33: with the rule variant installed, every step the loop invokes on the
\* classifier object (analyze, knowledge search, compose reply) completes:
\* the run goes on to the step that follows and the message is not given up
C33_RuleVariantCompletes ==
    [][\A t \in Tasks :
          (ai_processor = "rule"
               /\ pc[t] \in {"analyze", "search", "generate"}
               /\ pc'[t] # pc[t])
              => /\ pc'[t] = CASE pc[t] = "analyze" -> "search"
                               [] pc[t] = "search" -> "ticket"
                               [] pc[t] = "generate" -> "send"
                 /\ email'[t] = email[t]
                 /\ raised' = raised
      ]_vars

\* C34: every Analysis analyze_email returns, for either variant, has its
\* category, priority and sentiment among the listed values
C34_AnalysisFieldsInDomain ==
    (returned # NoReturn /\ returned.kind = "value")
        => /\ returned.analysis.category \in DOMAIN categories
           /\ returned.analysis.priority \in {"low", "medium", "high"}
           /\ returned.analysis.sentiment
                 \in {"positive", "neutral", "negative"}

\* C35: the compose step never gives the message up: it hands a reply, the
\* generated one or the fallback acknowledgement, to the send step, and a
\* run holding the fallback goes through the send step to the log step,
\* where the record is appended unless the insert of the record fails
C35_ComposerNeverRaises ==
    [][\A t \in Tasks :
          /\ (pc[t] = "generate" /\ pc'[t] # "generate")
                => /\ pc'[t] = "send"
                   /\ response'[t] \in {"ai", "fallback"}
                   /\ email'[t] = email[t]
                   /\ raised' = raised
          /\ (pc[t] = "send" /\ response[t] = "fallback"
                  /\ pc'[t] # "send")
                => /\ pc'[t] = "log"
                   /\ response'[t] = "fallback"
                   /\ email'[t] = email[t]
                   /\ raised' = raised
                   /\ sent' # sent
                         => sent' = sent (+) SetToBag({[email_id |-> email[t],
                                ticket_ref |-> ticket_id[t] # NoTicket]})
          /\ (pc[t] = "log" /\ response[t] = "fallback" /\ pc'[t] # "log")
                => /\ pc'[t] = "add"
                   /\ interaction_log' # interaction_log
                         => CountLog(email[t])' = CountLog(email[t]) + 1
      ]_vars

\* C35 witness: the fallback acknowledgement was sent and the run is at the
\* log step
C35_Witness ==
    \E t \in Tasks :
        /\ pc[t] = "log"
        /\ response[t] = "fallback"
        /\ send_result[t] = "sent"
        /\ CountSent(email[t]) = 1
        /\ email[t] \notin raised

\* ------------------------------------------- cycle after cycle on a backlog
\* asyncio.sleep returns and the while loop of start_monitoring starts the
\* next call of _process_new_emails
WakeCycle ==
    /\ cycle # NoArgs
    /\ cycle.at = "sleep"
    /\ cycle' = [cycle EXCEPT !.at = "list", !.listed = {},
                              !.messages = <<>>, !.emails = <<>>,
                              !.handled = <<>>]
    /\ UNCHANGED FetchFrame

\* a backlog of readable messages, nothing processed yet, and collaborators
\* that never raise in the list call, the get call and the pipeline
BacklogInit ==
    /\ ServiceInit
    /\ ClassifierIdle
    /\ ComposerIdle
    /\ MatcherIdle
    /\ cycle \in CyclesOf(0..MaxInbox, {{}}, {{}}, FALSE)

BacklogNext == FetchNext \/ WakeCycle

\* the event loop lets the loop task take its next step
BacklogSpec == BacklogInit /\ [][BacklogNext]_vars /\ WF_vars(BacklogNext)

\* C36: every message that stays unread is eventually processed, also with
\* more unread messages than MaxResults and a mark-read call that keeps
\* failing.  No message arrives and processed_emails only grows, so this
\* says that at some time every unread message is in processed_emails
C36_UnreadEventuallyProcessed ==
    <>(cycle # NoArgs /\ cycle.unread \subseteq cycle.processed)

\* the test of step 4 on the locals of task t
ReplyDue(t) == ~analysis[t].requires_human \/ kb_results[t]

C38_TicketNoteOnlyWithTicket ==
    (email_data # NoArgs /\ variant = "bedrock")
        => (Positions(email_data.body, "ticket_note") # {}
               => email_data.ticket_id # NoTicket)

\* get_status()["processed_count"]
processed_count == Cardinality(processed_emails)

\* C39: no step removes an id from processed_emails, processed_count never
\* decreases, and no pipeline run starts for an id that is in
\* processed_emails, whether the loop was stopped and started in between
\* or not
C39_ProcessedSetOnlyGrows ==
    [][/\ processed_emails \subseteq processed_emails'
       /\ processed_count' >= processed_count
       /\ \A t \in Tasks :
             (pc[t] = "next" /\ pc'[t] = "analyze")
                 => email'[t] \notin processed_emails
      ]_vars

\* C39 witness: a loop was stopped after it had processed a message,
\* start() was called again, and the new loop has fetched that message and
\* is about to skip it
C39_Witness ==
    \E t, u \in Tasks :
        /\ pc[u] = "done"
        /\ ~stopped
        /\ is_running
        /\ pc[t] = "next"
        /\ emails[t] # <<>>
        /\ Head(emails[t]) \in processed_emails
        /\ CountLog(Head(emails[t])) = 1

\* C40: in every email_processed record ticket_created is true exactly
\* when ticket_id is not None, a ticket_id that is not None names a ticket
\* stored for the message of the record, and the record a run appends
\* carries the ticket_id of that run
C40_RecordSelfConsistent ==
    /\ [](\A r \in BagToSet(interaction_log) :
             /\ r.ticket_created <=> (r.ticket_id # NoTicket)
             /\ r.ticket_id # NoTicket
                   => [ticket_id |-> r.ticket_id, email_id |-> r.email_id]
                         \in tickets)
    /\ [](\A t \in Tasks :
             (pc[t] \in {"generate", "send", "log"}
                  /\ ticket_id[t] # NoTicket)
                => [ticket_id |-> ticket_id[t], email_id |-> email[t]]
                       \in tickets)
    /\ [][\A t \in Tasks :
             (pc[t] = "log" /\ interaction_log' # interaction_log)
                => \E r \in BagToSet(interaction_log') :
                      /\ interaction_log' = interaction_log (+) SetToBag({r})
                      /\ r.email_id = email[t]
                      /\ r.ticket_id = ticket_id[t]
                      /\ r.ticket_created <=> (ticket_id[t] # NoTicket)
         ]_vars

\* C40 witness: one record with the ticket of its run and one record of a
\* run that created no ticket
C40_Witness ==
    \E r, q \in BagToSet(interaction_log) :
        /\ r.ticket_created
        /\ r.ticket_id # NoTicket
        /\ [ticket_id |-> r.ticket_id, email_id |-> r.email_id] \in tickets
        /\ ~q.ticket_created
        /\ q.ticket_id = NoTicket
        /\ q.email_id # r.email_id

====
